---- MODULE Spec2Model ----
(***************************************************************************)
(* Verification model of the batched resize engine of DALI                 *)
(* (dali/pipeline/operators/crop/crop.cc, resize part, lines 202-935):     *)
(*   - the rational grid calculator (gcf, lcm, grid steps),                *)
(*   - the pixel mapping table builder (PixMappingHelper,                  *)
(*     ResizeMappingTable),                                                *)
(*   - the batch coordinator (DataDependentSetupGPU, RunImpl),             *)
(*   - the resampling kernel (ResizeFunc).                                 *)
(* Each part has its own specification (SpecGrid, SpecTable, ...); the     *)
(* variables of the other parts stay at their idle values.                 *)
(***************************************************************************)
EXTENDS Integers, Sequences, FiniteSets, TLC

VARIABLES
    \* ---- rational grid calculator (one axis) ----
    dim0, dim1,       \* source / destination extent handed to lcm()
    gridPc,           \* "start" | "done"
    gridGcf,          \* value of gcf(dim0, dim1)
    gridLcm,          \* value of the int lcmH / lcmW
    stepSrc, stepDst, \* sy0 / sy1 (sx0 / sx1)
    \* ---- ResizeMappingTable (host table object) ----
    io_size,          \* <<[W0, H0], [W1, H1]>> as {x, y} pairs
    C_,
    resizeMappingCPU,        \* ResizeMapping array
    resizeMappingSimpleCPU,  \* MappingInfo array (nearest neighbour)
    pixMappingCPU,           \* PixMapping array
    helper,           \* scalar fields of the PixMappingHelper of the call
    tblArg,           \* arguments and grid steps of the running constructTable
    tblPc,            \* "idle" | "loop" | "trim"
    tblX, tblY,       \* loop variables x, y of PixMappingHelper::constructTable
    nBuilt,           \* number of finished ResizeMappingTable::constructTable calls
    \* ---- one launch of the resampling kernel on one image ----
    kArg,             \* arguments of the launch (NoLaunch before it)
    kDone,            \* workers <<startW, startH>> that have run ResizeFunc
    img_out,          \* output memory: address -> byte stored last
    outCnt,           \* address -> number of stores so far
    \* ---- one NewResize<GPUBackend> operator over a sequence of batches ----
    interp_type_,     \* "nn" | "linear", fixed at construction
    batch,            \* the batch of the last RunImpl (NoBatch before it)
    resizeParam_,     \* host vector: per image <<stepSrc, stepDst, crop>>
    resizeParamGPU_,  \* device copy of the grid parameters
    newMapping,       \* what DataDependentSetupGPU returned in the last RunImpl
    mappingPntr_,     \* device nearest-neighbour tables, slot -> table
    resizeTbl_,       \* sizes and C the linear table object was built for
    \* ---- the CUDA stream of the operator and the device table behind it ----
    sQueue,           \* operations launched on the stream, not yet started
    sRun,             \* the operation the device executes (NoOp if none)
    sDone,            \* threads of sRun that have finished
    sRead,            \* table versions the workers of sRun have read
    devTbl,           \* device table: entry -> version of its last write
    nLaunched,        \* batches the host has launched
    lastBuilt,        \* version of the last construction the host launched
    \* ---- NewResize<GPUBackend>::RunImpl, statement by statement ----
    suPc,             \* "idle" | "setup" | "dispatch" | "error"
    suNN,             \* interp_type_ == DALI_INTERP_NN
    suBatch,          \* the input batch of the running (or last) RunImpl
    suPrev,           \* the batch of the last RunImpl that reached its end
    suI,              \* loop variable i of DataDependentSetupGPU (from 1)
    suNewResize,      \* local newResize of DataDependentSetupGPU
    suParam,          \* resizeParam_: per image grid parameters and mirror flags
    pTotalSize,       \* resizeMemory[BATCH_SLICE_NUMB], size_t as 8 base-256 digits
    suDev,            \* the device buffers of the operator
    suLog,            \* what the running (or last) RunImpl has issued so far
    \* ---- the operators that validate on the host ----
    cpuOp,            \* the last call of a CPU operator and how it ended
    \* ---- Paste::Prepare on one sample ----
    pasteArg,         \* input_shape and the arguments ratio, paste_x, paste_y
    pastePc,          \* "call" | "returned" | "error"
    sample_dims_paste_yx, \* the record of the sample (<<>> while not written)
    \* ---- the loops of constructTable and ResizeFunc, statement by statement ----
    loopArg,          \* the call: the function, its grid steps, limits and strides
    loopW             \* per worker: where it stands and its loop variables

gridVars == <<dim0, dim1, gridPc, gridGcf, gridLcm, stepSrc, stepDst>>

tblVars == <<io_size, C_, resizeMappingCPU, resizeMappingSimpleCPU, pixMappingCPU,
             helper, tblArg, tblPc, tblX, tblY, nBuilt>>

kernVars == <<kArg, kDone, img_out, outCnt>>

opVars == <<interp_type_, batch, resizeParam_, resizeParamGPU_, newMapping,
            mappingPntr_, resizeTbl_>>

streamVars == <<sQueue, sRun, sDone, sRead, devTbl, nLaunched, lastBuilt>>

setupVars == <<suPc, suNN, suBatch, suPrev, suI, suNewResize, suParam, pTotalSize,
               suDev, suLog, cpuOp>>

pasteVars == <<pasteArg, pastePc, sample_dims_paste_yx>>

loopVars == <<loopArg, loopW>>

vars == <<gridVars, tblVars, kernVars, opVars, streamVars, setupVars, pasteVars,
          loopVars>>

(***************************************************************************)
(* Bounds of the model.                                                    *)
(***************************************************************************)
\* largest small extent fed to the grid calculator
MaxGridDim == 8
\* largest image extent of a single table construction
MaxDim == 4
\* largest image extent when one table object is constructed repeatedly
MaxRebuildDim == 2
\* number of constructions of one table object
MaxBuilds == 2
\* largest image extent handed to the resampling kernel
MaxKDim == 3
\* largest number of workers (threads of a block) of one kernel launch
MaxWorkers == 4
\* largest image extent in the batches of the coordinator
MaxBDim == 2
\* number of images of a batch
BatchSize == 2
\* batches launched on the stream
MaxStreamBatches == 3
\* threads of a kernel on the stream
StreamThreads == 2
\* entries of the device table
StreamEntries == 3

(***************************************************************************)
(* 32-bit int arithmetic.  TLC's integers are themselves 32 bit wide, so   *)
(* the product of two ints is computed on base-256 digits.                 *)
(***************************************************************************)
Digit(v, i) == (v \div (IF i = 0 THEN 1 ELSE IF i = 1 THEN 256
                        ELSE IF i = 2 THEN 65536 ELSE 16777216)) % 256

\* column k of the schoolbook product of two non-negative ints
MulCol(a, b, k) ==
    LET S == {i \in 0..3 : k - i \in 0..3}
        RECURSIVE Sum(_)
        Sum(T) == IF T = {} THEN 0
                  ELSE LET i == CHOOSE j \in T : TRUE
                       IN Digit(a, i) * Digit(b, k - i) + Sum(T \ {i})
    IN Sum(S)

RECURSIVE MulAcc(_, _, _)
\* column k plus the carry of the columns below it
MulAcc(a, b, k) ==
    IF k = 0 THEN MulCol(a, b, 0)
    ELSE MulCol(a, b, k) + (MulAcc(a, b, k - 1) \div 256)

\* the exact product of two non-negative ints, as 8 base-256 digits
ExactMul(a, b) == [k \in 0..7 |-> MulAcc(a, b, k) % 256]

\* the int held by the low four digits d[0 .. 3] (two's complement)
LowWord(d) ==
    d[0] + d[1] * 256 + d[2] * 65536
    + (IF d[3] >= 128 THEN d[3] - 256 ELSE d[3]) * 16777216

\* the int that the machine multiplication a * b of two non-negative ints
\* leaves in a 32-bit register (low 32 bits, two's complement)
\* (a product of operands below 2^15 fits the register as it is)
MulInt(a, b) ==
    IF a < 32768 /\ b < 32768 THEN a * b ELSE LowWord(ExactMul(a, b))

\* C integer division: truncation toward zero (b > 0)
DivInt(a, b) == IF a >= 0 THEN a \div b ELSE -((-a) \div b)

(***************************************************************************)
(* Rational grid calculator.                                               *)
(***************************************************************************)
RECURSIVE gcfLoop(_, _)
\* the loop  while (b) { t = a % b; a = b; b = t; }
gcfLoop(a, b) == IF b = 0 THEN a ELSE gcfLoop(b, a % b)

\* int gcf(int a, int b)
gcf(a, b) == IF b > a THEN gcfLoop(b, a) ELSE gcfLoop(a, b)

\* int lcm(int a, int b) { return a / gcf(a, b) * b; }
lcm(a, b) == MulInt(DivInt(a, gcf(a, b)), b)

\* extents that make a / gcf * b leave the int range
LargeDims == {46341, 46342, 65536, 65537}

GridDims == (1..MaxGridDim) \cup LargeDims

InitGrid ==
    /\ dim0 \in GridDims
    /\ dim1 \in GridDims
    /\ gridPc = "start"
    /\ gridGcf = 0
    /\ gridLcm = 0
    /\ stepSrc = 0
    /\ stepDst = 0

\* const int lcmH = lcm(H0, H1); sy0 = lcmH / H0; sy1 = lcmH / H1;
GridSteps ==
    /\ gridPc = "start"
    /\ gridGcf' = gcf(dim0, dim1)
    /\ \E lcmH \in {lcm(dim0, dim1)} :
          /\ gridLcm' = lcmH
          /\ stepSrc' = DivInt(lcmH, dim0)
          /\ stepDst' = DivInt(lcmH, dim1)
    /\ gridPc' = "done"
    /\ UNCHANGED <<dim0, dim1>>

\* C2 (as claimed): for all positive d0, d1: gcf * lcm = d0 * d1, the steps
\* satisfy d0 * stepSrc = d1 * stepDst = lcm, and equal extents give steps 1.
RationalExactness ==
    gridPc = "done" =>
        /\ gridLcm >= 0 /\ stepSrc >= 0 /\ stepDst >= 0
        /\ ExactMul(gridGcf, gridLcm) = ExactMul(dim0, dim1)
        /\ ExactMul(dim0, stepSrc) = ExactMul(gridLcm, 1)
        /\ ExactMul(dim1, stepDst) = ExactMul(gridLcm, 1)
        /\ (dim0 = dim1 => stepSrc = 1 /\ stepDst = 1)


(***************************************************************************)
(* Pixel mapping table builder.                                            *)
(*                                                                         *)
(* A helper state h is a record with the fields of PixMappingHelper plus   *)
(* the three arrays it writes through its pointers:                        *)
(*   usePix           pPixMapping_ != NULL (area-weighted mode)            *)
(*   numPixMapMax, numPixMapUsed                                           *)
(*   pixMapping       the PixMapping array  (pixAddr, pixArea)             *)
(*   mapping          the ResizeMapping array (nPixels, intersectInfoAddr) *)
(*   closest          the MappingInfo array (nearest-neighbour table)      *)
(*   pMapping         index of *pMapping_ in mapping                       *)
(*   pMappingClosest  index of *pMappingClosest_ in closest                *)
(*   closestDist, centerX, centerY                                         *)
(* Arrays are sequences; C index i is element i + 1.                       *)
(***************************************************************************)
Min(a, b) == IF a < b THEN a ELSE b

\* container resize: the first Min(old, n) elements are kept, new elements
\* are value-initialised
ResizeSeq(s, n, fill) == [i \in 1..n |-> IF i <= Len(s) THEN s[i] ELSE fill]

ZeroPix == [pixAddr |-> 0, pixArea |-> 0]
ZeroMap == [nPixels |-> 0, intersectInfoAddr |-> 0]

\* closestDist_ = FLT_MAX is kept as a negative mark; every distance is >= 0
IsFltMax(d) == d < 0

\* float distance(float x, float y) { return x * x + y * y; }
distance(x, y) == x * x + y * y

\* static void resizeVector(pntr, nElem)
resizeVector(h, nElem) == [h EXCEPT !.pixMapping = ResizeSeq(@, nElem, ZeroPix)]

\* static void assignVectorElement(pntr, elemIdx, addr, area)
assignVectorElement(h, elemIdx, addr, area) ==
    [h EXCEPT !.pixMapping[elemIdx + 1] = [pixAddr |-> addr, pixArea |-> area]]

\* nPixels++ of the record pMapping_ points to
IncPixels(h) == [h EXCEPT !.mapping[h.pMapping + 1].nPixels = @ + 1]

\* if (numPixMapUsed_ == numPixMapMax_)
\*   (*allocMemFunc_)(*pPixMapping_, numPixMapMax_ <<= 1);
GrowPixMapping(h) ==
    IF h.numPixMapUsed = h.numPixMapMax
    THEN [resizeVector(h, 2 * h.numPixMapMax) EXCEPT !.numPixMapMax = 2 * h.numPixMapMax]
    ELSE h

\* pMapping_->nPixels++;
\* (*assignFunc_)(*pPixMapping_, numPixMapUsed_++, addr, area);
PutPixel(h, addr, area) ==
    [assignVectorElement(IncPixels(h), h.numPixMapUsed, addr, area)
        EXCEPT !.numPixMapUsed = @ + 1]

\* void PixMappingHelper::AddPixel(addr, area, crdX, crdY)
AddPixel(h, addr, area, crdX, crdY) ==
    IF h.usePix
    THEN PutPixel(GrowPixMapping(h), addr, area)
    ELSE LET newDist == distance(2 * crdX - h.centerX, 2 * crdY - h.centerY)
         IN IF IsFltMax(h.closestDist) \/ h.closestDist > newDist
            THEN [h EXCEPT !.closestDist = newDist,
                           !.closest[h.pMappingClosest + 1] = addr]
            ELSE h

\* void PixMappingHelper::UpdateMapping(shift, centerX, centerY)
UpdateMapping(h, shift, cX, cY) ==
    IF h.usePix
    THEN [h EXCEPT !.pMapping = shift,
                   !.mapping[shift + 1].intersectInfoAddr = h.numPixMapUsed]
    ELSE [h EXCEPT !.pMappingClosest = shift, !.centerX = cX, !.centerY = cY]

\* PixMappingHelper::PixMappingHelper(area, pMapping, pMapInfo, resizedArea,
\*                                    pPixMapping, allocMemFunc, assignFunc)
\* mapping / closest / pixMapping are the arrays behind the three pointers,
\* hasAlloc is allocMemFunc != NULL
NewHelper(area, mapping, closest, resizedArea, pixMapping, hasAlloc) ==
    LET usePix == resizedArea = 0 /\ hasAlloc
        h0 == [usePix |-> usePix,
               numPixMapMax |-> 1, numPixMapUsed |-> 0,
               pixMapping |-> pixMapping, mapping |-> mapping,
               closest |-> closest,
               pMapping |-> 0, pMappingClosest |-> 0,
               closestDist |-> -1, centerX |-> 0, centerY |-> 0]
    IN IF usePix
       THEN [resizeVector(h0, 2 * area) EXCEPT !.numPixMapMax = 2 * area]
       ELSE h0

\* CellGeom with the right / bottom remainder not capped by the cell's own
\* extent: extra = (n + s1) % s0 instead of min((n + s1) % s0, s1)
CellGeomNoMin(sx0, sy0, sx1, sy1, x, y) ==
    LET nX == x * sx1
        nY == y * sy1
        begX == nX \div sx0
        begY == nY \div sy0
        endX == (nX + sx1) \div sx0
        endY == (nY + sy1) \div sy0
        extraX == (nX + sx1) % sx0
        extraY == (nY + sy1) % sy0
    IN [extra0 |-> extraX, extra1 |-> extraY,
        lenFirst0 |-> sx0 - (nX % sx0), lenFirst1 |-> sy0 - (nY % sy0),
        lenX |-> endX + begX - (IF extraX # 0 \/ endX = begX THEN 0 ELSE 1),
        lenY |-> endY + begY - (IF extraY # 0 \/ endY = begY THEN 0 ELSE 1),
        shift |-> ((y * sy1) % sy0) * sx0 + ((x * sx1) % sx0),
        endIdx0 |-> endX - begX, endIdx1 |-> endY - begY]

\* CellGeom with the slots numbered row by row, shift = y * sx0 + x
CellGeomRowMajor(sx0, sy0, sx1, sy1, x, y) ==
    LET nX == x * sx1
        nY == y * sy1
        begX == nX \div sx0
        begY == nY \div sy0
        endX == (nX + sx1) \div sx0
        endY == (nY + sy1) \div sy0
        extraX == Min((nX + sx1) % sx0, sx1)
        extraY == Min((nY + sy1) % sy0, sy1)
    IN [extra0 |-> extraX, extra1 |-> extraY,
        lenFirst0 |-> sx0 - (nX % sx0), lenFirst1 |-> sy0 - (nY % sy0),
        lenX |-> endX + begX - (IF extraX # 0 \/ endX = begX THEN 0 ELSE 1),
        lenY |-> endY + begY - (IF extraY # 0 \/ endY = begY THEN 0 ELSE 1),
        shift |-> y * sx0 + x,
        endIdx0 |-> endX - begX, endIdx1 |-> endY - begY]

\* The geometry of sub-cell (x, y): lines 615-637 of constructTable
CellGeom(sx0, sy0, sx1, sy1, x, y) ==
    LET nX == x * sx1
        nY == y * sy1
        begX == nX \div sx0
        begY == nY \div sy0
        endX == (nX + sx1) \div sx0
        endY == (nY + sy1) \div sy0
        extraX == Min((nX + sx1) % sx0, sx1)
        extraY == Min((nY + sy1) % sy0, sy1)
    IN [extra0 |-> extraX, extra1 |-> extraY,
        lenFirst0 |-> sx0 - (nX % sx0), lenFirst1 |-> sy0 - (nY % sy0),
        lenX |-> endX + begX - (IF extraX # 0 \/ endX = begX THEN 0 ELSE 1),
        lenY |-> endY + begY - (IF extraY # 0 \/ endY = begY THEN 0 ELSE 1),
        shift |-> ((y * sy1) % sy0) * sx0 + ((x * sx1) % sx0),
        endIdx0 |-> endX - begX, endIdx1 |-> endY - begY]

\* r, with the helper h computed first: the statements of the loops run one
\* after the other
Settled(h, r) == IF h.numPixMapMax > 0 THEN r ELSE h

RECURSIVE RowTail(_, _, _, _, _, _, _, _)
\* if (x0) {
\*   while (--x0 > 0) AddPixel(pixAddr -= C, sx0 * rowMult, x0, y0);
\*   AddPixel(pixAddr -= C, lenFirst[0] * rowMult, x0, y0);
\* }
\* entered with x0 not yet decremented
RowTail(h, C, sx0, g, rowMult, x0, y0, pixAddr) ==
    IF x0 <= 0 THEN h
    ELSE RowTail(AddPixel(h, pixAddr - C,
                          (IF x0 - 1 > 0 THEN sx0 ELSE g.lenFirst0) * rowMult,
                          x0 - 1, y0),
                 C, sx0, g, rowMult, x0 - 1, y0, pixAddr - C)

\* one pass of the body of while (true), lines 644-656
CellRow(h, C, W0, sx0, g, rowMult, y0) ==
    RowTail(IF g.extra0 # 0
            THEN AddPixel(h, (y0 * W0 + g.endIdx0) * C, g.extra0 * rowMult,
                          g.endIdx0, y0)
            ELSE h,
            C, sx0, g, rowMult, g.endIdx0, y0, (y0 * W0 + g.endIdx0) * C)

RECURSIVE CellRows(_, _, _, _, _, _, _, _)
\* the loop while (true) { ... }, lines 643-667, about to run the row y0
\* with the multiplier rowMult; past the first row the loop is left when
\* y0 > endIdx[1], or y0 = endIdx[1] with no extra row
CellRows(h, C, W0, sx0, sy0, g, rowMult, y0) ==
    Settled(h,
       IF y0 > 0 /\ (y0 > g.endIdx1 \/ (y0 = g.endIdx1 /\ g.extra1 = 0))
       THEN h
       ELSE CellRows(CellRow(h, C, W0, sx0, g, rowMult, y0), C, W0, sx0, sy0, g,
                     IF y0 + 1 >= g.endIdx1 THEN g.extra1 ELSE sy0, y0 + 1))

\* the body of the two for loops of constructTable for a sub-cell of
\* geometry g
constructCellAt(h, C, W0, sx0, sy0, g) ==
    CellRows(UpdateMapping(h, g.shift, g.lenX, g.lenY), C, W0, sx0, sy0, g,
             IF g.endIdx1 # 0 THEN g.lenFirst1 ELSE g.extra1, 0)

\* the body of the two for loops of constructTable for sub-cell (x, y)
constructCell(h, C, W0, sx0, sy0, sx1, sy1, x, y) ==
    constructCellAt(h, C, W0, sx0, sy0, CellGeom(sx0, sy0, sx1, sy1, x, y))

RECURSIVE constructFrom(_, _, _, _, _, _, _, _, _, _, _, _, _)
\* PixMappingHelper::constructTable from loop position (x, y) to the end,
\* for the worker (startW, startH) of a (stepW, stepH) grid
constructFrom(h, C, W0, sx0, sy0, sx1, sy1, stepW, stepH, startW, startH, x, y) ==
    Settled(h,
       IF y >= sy0 THEN h
       ELSE IF x >= sx0
       THEN constructFrom(h, C, W0, sx0, sy0, sx1, sy1, stepW, stepH, startW, startH,
                          startW, y + stepH)
       ELSE constructFrom(constructCell(h, C, W0, sx0, sy0, sx1, sy1, x, y),
                          C, W0, sx0, sy0, sx1, sy1, stepW, stepH, startW, startH,
                          x + stepW, y))

\* void PixMappingHelper::constructTable(C, W0, sx0, sy0, sx1, sy1,
\*                                       stepW, stepH, startW, startH)
constructTable(h, C, W0, sx0, sy0, sx1, sy1, stepW, stepH, startW, startH) ==
    constructFrom(h, C, W0, sx0, sy0, sx1, sy1, stepW, stepH, startW, startH,
                  startW, startH)


(***************************************************************************)
(* ResizeMappingTable: the host table object and its construction, one     *)
(* sub-cell per step.                                                      *)
(***************************************************************************)
Channels == {1, 3}

\* the helper record of the operators above, from the state variables
PackHelper ==
    [usePix |-> helper.usePix,
     numPixMapMax |-> helper.numPixMapMax, numPixMapUsed |-> helper.numPixMapUsed,
     pixMapping |-> pixMappingCPU, mapping |-> resizeMappingCPU,
     closest |-> resizeMappingSimpleCPU,
     pMapping |-> helper.pMapping, pMappingClosest |-> helper.pMappingClosest,
     closestDist |-> helper.closestDist,
     centerX |-> helper.centerX, centerY |-> helper.centerY]

HelperFields(h) ==
    [usePix |-> h.usePix,
     numPixMapMax |-> h.numPixMapMax, numPixMapUsed |-> h.numPixMapUsed,
     pMapping |-> h.pMapping, pMappingClosest |-> h.pMappingClosest,
     closestDist |-> h.closestDist, centerX |-> h.centerX, centerY |-> h.centerY]

NoHelper == HelperFields(NewHelper(0, <<>>, <<>>, 1, <<>>, FALSE))

NoArg == [H0 |-> 0, W0 |-> 0, H1 |-> 0, W1 |-> 0, C |-> 0, use_NN |-> FALSE,
          sx0 |-> 0, sy0 |-> 0, sx1 |-> 0, sy1 |-> 0]

\* a table object right after its construction as a class member
InitTblVars ==
    /\ io_size = <<[x |-> 0, y |-> 0], [x |-> 0, y |-> 0]>>
    /\ C_ = 0
    /\ resizeMappingCPU = <<>>
    /\ resizeMappingSimpleCPU = <<>>
    /\ pixMappingCPU = <<>>
    /\ helper = NoHelper
    /\ tblArg = NoArg
    /\ tblPc = "idle"
    /\ tblX = 0
    /\ tblY = 0
    /\ nBuilt = 0

\* sy0 = lcmH / H0; sy1 = lcmH / H1; sx0 = lcmW / W0; sx1 = lcmW / W1;
StepsOf(lcmH, lcmW, H0, W0, H1, W1) ==
    [sy0 |-> DivInt(lcmH, H0), sy1 |-> DivInt(lcmH, H1),
     sx0 |-> DivInt(lcmW, W0), sx1 |-> DivInt(lcmW, W1)]

\* the grid steps of lines 696-702
TableSteps(H0, W0, H1, W1) == StepsOf(lcm(H0, H1), lcm(W0, W1), H0, W0, H1, W1)

\* ResizeMappingTable::constructTable up to the call of
\* helper.constructTable: the steps, initTable and the helper's constructor
TblConstructBegin(H0, W0, H1, W1, C, use_NN) ==
    /\ tblPc = "idle"
    /\ \E st \in {TableSteps(H0, W0, H1, W1)} :
          /\ \E h \in {NewHelper(st.sx0 * st.sy0,
                                 IF use_NN THEN resizeMappingCPU
                                 ELSE ResizeSeq(resizeMappingCPU, st.sx0 * st.sy0,
                                                ZeroMap),
                                 IF use_NN
                                 THEN ResizeSeq(resizeMappingSimpleCPU,
                                                st.sx0 * st.sy0, 0)
                                 ELSE resizeMappingSimpleCPU,
                                 IF use_NN THEN st.sx1 * st.sy1 ELSE 0,
                                 pixMappingCPU, TRUE)} :
                /\ resizeMappingCPU' = h.mapping
                /\ resizeMappingSimpleCPU' = h.closest
                /\ pixMappingCPU' = h.pixMapping
                /\ helper' = HelperFields(h)
          /\ io_size' = <<[x |-> W0, y |-> H0], [x |-> W1, y |-> H1]>>
          /\ C_' = C
          /\ tblArg' = [H0 |-> H0, W0 |-> W0, H1 |-> H1, W1 |-> W1, C |-> C,
                        use_NN |-> use_NN, sx0 |-> st.sx0, sy0 |-> st.sy0,
                        sx1 |-> st.sx1, sy1 |-> st.sy1]
    /\ tblPc' = "loop"
    /\ tblX' = 0
    /\ tblY' = 0
    /\ UNCHANGED nBuilt

\* one pass of the inner for loop of helper.constructTable(C, W0, sx0, ...)
\* with the default stepW = stepH = 1, startW = startH = 0
TblConstructCell ==
    /\ tblPc = "loop"
    /\ \E h \in {constructCell(PackHelper, tblArg.C, tblArg.W0, tblArg.sx0,
                                 tblArg.sy0, tblArg.sx1, tblArg.sy1, tblX, tblY)} :
          /\ resizeMappingCPU' = h.mapping
          /\ resizeMappingSimpleCPU' = h.closest
          /\ pixMappingCPU' = h.pixMapping
          /\ helper' = HelperFields(h)
    /\ LET lastX == tblX + 1 >= tblArg.sx0
           lastY == tblY + 1 >= tblArg.sy0
       IN /\ tblX' = IF lastX THEN 0 ELSE tblX + 1
          /\ tblY' = IF lastX THEN tblY + 1 ELSE tblY
          /\ tblPc' = IF lastX /\ lastY THEN "trim" ELSE "loop"
    /\ UNCHANGED <<io_size, C_, tblArg, nBuilt>>

\* if (!use_NN) pixMappingCPU.resize(helper.numUsed());
TblConstructEnd ==
    /\ tblPc = "trim"
    /\ pixMappingCPU' = IF tblArg.use_NN THEN pixMappingCPU
                        ELSE ResizeSeq(pixMappingCPU, helper.numPixMapUsed, ZeroPix)
    /\ tblPc' = "idle"
    /\ nBuilt' = nBuilt + 1
    /\ UNCHANGED <<io_size, C_, resizeMappingCPU, resizeMappingSimpleCPU, helper,
                   tblArg, tblX, tblY>>

IdleGrid ==
    /\ dim0 = 1 /\ dim1 = 1 /\ gridPc = "done" /\ gridGcf = 0 /\ gridLcm = 0
    /\ stepSrc = 0 /\ stepDst = 0

IdleKern ==
    /\ kArg = [launched |-> FALSE]
    /\ kDone = {}
    /\ img_out = <<>>
    /\ outCnt = <<>>

IdleStream ==
    /\ sQueue = <<>>
    /\ sRun = [kind |-> "none"]
    /\ sDone = {}
    /\ sRead = {}
    /\ devTbl = <<>>
    /\ nLaunched = 0
    /\ lastBuilt = 0

IdleLoop ==
    /\ loopArg = [fn |-> "none"]
    /\ loopW = <<>>

IdlePaste ==
    /\ pasteArg = <<>>
    /\ pastePc = "returned"
    /\ sample_dims_paste_yx = <<>>

IdleSetup ==
    /\ suPc = "idle"
    /\ suNN = FALSE
    /\ suBatch = <<>>
    /\ suPrev = <<>>
    /\ suI = 0
    /\ suNewResize = FALSE
    /\ suParam = <<>>
    /\ pTotalSize = <<>>
    /\ suDev = <<>>
    /\ suLog = {}
    /\ cpuOp = [op |-> "none"]

IdleOp ==
    /\ interp_type_ = "nn"
    /\ batch = [run |-> FALSE]
    /\ resizeParam_ = <<>>
    /\ resizeParamGPU_ = <<>>
    /\ newMapping = FALSE
    /\ mappingPntr_ = <<>>
    /\ resizeTbl_ = [valid |-> FALSE]
    /\ IdleStream

InitTable == InitTblVars /\ IdleGrid /\ IdleKern /\ IdleOp /\ IdleSetup /\ IdlePaste /\ IdleLoop

\* one construction of a fresh table object, every size up to MaxDim
TblBuildOnce ==
    /\ nBuilt = 0
    /\ tblPc = "idle"
    /\ \E H0 \in 1..MaxDim, W0 \in 1..MaxDim, H1 \in 1..MaxDim, W1 \in 1..MaxDim,
          C \in Channels, use_NN \in BOOLEAN :
          TblConstructBegin(H0, W0, H1, W1, C, use_NN)
    /\ UNCHANGED <<gridVars, kernVars, opVars, streamVars, setupVars, pasteVars, loopVars>>

TblCellStep == TblConstructCell /\ UNCHANGED <<gridVars, kernVars, opVars, streamVars, setupVars, pasteVars, loopVars>>

TblEndStep == TblConstructEnd /\ UNCHANGED <<gridVars, kernVars, opVars, streamVars, setupVars, pasteVars, loopVars>>

NextTable == TblBuildOnce \/ TblCellStep \/ TblEndStep

GridStep == GridSteps /\ UNCHANGED <<tblVars, kernVars, opVars, streamVars, setupVars, pasteVars, loopVars>>

NextGrid == GridStep

\* the grid calculator about to run, everything else idle
InitGridCalc == InitGrid /\ InitTblVars /\ IdleKern /\ IdleOp /\ IdleSetup /\ IdlePaste /\ IdleLoop

SpecGrid == InitGridCalc /\ [][NextGrid]_vars

SpecTable == InitTable /\ [][NextTable]_vars

\* sum of the areas of pixMappingCPU[from + 1 .. to] (C indices from .. to - 1)
RECURSIVE SumArea(_, _, _)
SumArea(pix, from, to) ==
    IF from >= to THEN 0 ELSE pix[from + 1].pixArea + SumArea(pix, from + 1, to)

\* the sub-cells the serial loop has finished, in loop order, as slot indices
CellOrder(sx0, sy0, sx1, sy1, n) ==
    [k \in 1..n |-> CellGeom(sx0, sy0, sx1, sy1, (k - 1) % sx0, (k - 1) \div sx0).shift]

CellsDone ==
    IF tblPc = "loop" THEN tblY * tblArg.sx0 + tblX
    ELSE IF tblArg.sx0 > 0 THEN tblArg.sx0 * tblArg.sy0 ELSE 0

\* C1: in an area-weighted construction, the pairs emitted for every finished
\* sub-cell (from its intersectInfoAddr up to the start of the next sub-cell,
\* or up to numUsed for the last one) have areas summing to sx1 * sy1.
AreaConservation ==
    (nBuilt = 0 /\ tblPc \in {"loop", "trim"} /\ ~tblArg.use_NN) =>
        LET a == tblArg
            n == CellsDone
            ord == CellOrder(a.sx0, a.sy0, a.sx1, a.sy1, n)
        IN \A k \in 1..n :
              SumArea(pixMappingCPU,
                      resizeMappingCPU[ord[k] + 1].intersectInfoAddr,
                      IF k < n
                      THEN resizeMappingCPU[ord[k + 1] + 1].intersectInfoAddr
                      ELSE helper.numPixMapUsed)
              = a.sx1 * a.sy1

\* witness of C1: a finished area-weighted construction with several
\* sub-cells, some of them straddling source pixels on both axes
AreaConservationWitness ==
    /\ tblPc = "trim" /\ ~tblArg.use_NN
    /\ tblArg.sx0 > 1 /\ tblArg.sy0 > 1 /\ tblArg.sx1 > 1 /\ tblArg.sy1 > 1
    /\ helper.numPixMapUsed > tblArg.sx0 * tblArg.sy0


(***************************************************************************)
(* Resampling kernel: ResizeFunc.                                          *)
(*                                                                         *)
(* Rasters are functions from byte addresses 0 .. n - 1 to 0 .. 255.       *)
(* kp is the record of the scalar arguments of one call:                   *)
(*   W0, H0, W, H, C   sizes of the source and of the output raster        *)
(*   sx0, sy0, sx1, sy1, cropX, cropY   resizeParam[0 .. 2]                *)
(***************************************************************************)
\* #define nYoffset(W, C): the byte length of a raster row
nYoffset(W, C) == W * C

\* what a read outside the raster delivers: a value no uint8 holds
Undef == 255 + 1

ReadPix(img, a) == IF a \in DOMAIN img THEN img[a] ELSE Undef

\* the store of an int into a uint8
ToUint8(v) == v % 256

\* addWeitedColor(weight, C, pPix, pixColor), the amount added to channel c
addWeitedColor(weight, img, pPix, c) ==
    IF weight # 0 THEN weight * ReadPix(img, pPix + c) ELSE 0

\* setPixelColor without the half of the area added before the division
setPixelColorFloor(pixColor, area) == ToUint8(pixColor \div area)

\* setPixelColor(out, to, C, pixColor, area): the byte stored for one channel
setPixelColor(pixColor, area) == ToUint8((pixColor + (area \div 2)) \div area)

\* idx + nX % sx0 with idx = (nY % sy0) * sx0, lines 776-779 and 793-798:
\* the table slot ResizeFunc looks up for destination pixel (x, y)
KernelSlot(kp, x, y) ==
    (((y + kp.cropY) * kp.sy1) % kp.sy0) * kp.sx0 + (((x + kp.cropX) * kp.sx1) % kp.sx0)

\* DALI_INTERP_NN, lines 774-779: what setPixelColor reads at pPix for
\* channel c of destination pixel (x, y); in points to byte base of the
\* input, pMapping is the nearest-neighbour table
NNPix(img, base, kp, pMapping, x, y, c) ==
    LET nY == (y + kp.cropY) * kp.sy1
        nX == (x + kp.cropX) * kp.sx1
        pBaseY == base + (nY \div kp.sy0) * nYoffset(kp.W0, kp.C)
        slot == KernelSlot(kp, x, y)
        off == IF slot + 1 \in DOMAIN pMapping THEN pMapping[slot + 1] ELSE Undef
        pPix == pBaseY + (nX \div kp.sx0) * kp.C + off
    IN ReadPix(img, pPix + c)

\* DALI_INTERP_NN, lines 774-780: channel c of destination pixel (x, y)
NNColor(img, base, kp, pMapping, x, y, c) ==
    setPixelColor(NNPix(img, base, kp, pMapping, x, y, c), 1)

RECURSIVE TabSum(_, _, _, _, _, _, _)
\* for (int i = pResizePix->nPixels; i--;) addWeitedColor(...), lines 801-802
\* junk is what a read behind the end of the PixMapping array delivers
TabSum(img, pBase, pix, first, i, junk, c) ==
    IF i = 0 THEN 0
    ELSE LET e == IF first + i \in DOMAIN pix THEN pix[first + i] ELSE junk
         IN addWeitedColor(e.pixArea, img, pBase + e.pixAddr, c)
            + TabSum(img, pBase, pix, first, i - 1, junk, c)

\* DALI_INTERP_LINEAR with pre-calculated tables, lines 791-802: pixColor[c]
\* of destination pixel (x, y) when the loop over its pairs has ended
TabPixColor(img, base, kp, pResizeMapping, pPixMapping, junk, x, y, c) ==
    LET nY == (y + kp.cropY) * kp.sy1
        nX == (x + kp.cropX) * kp.sx1
        pBaseY == base + (nY \div kp.sy0) * nYoffset(kp.W0, kp.C)
        pBase == pBaseY + (nX \div kp.sx0) * kp.C
        pResizePix == pResizeMapping[KernelSlot(kp, x, y) + 1]
    IN TabSum(img, pBase, pPixMapping, pResizePix.intersectInfoAddr,
              pResizePix.nPixels, junk, c)

\* DALI_INTERP_LINEAR with pre-calculated tables, lines 791-804
TabColor(img, base, kp, pResizeMapping, pPixMapping, junk, x, y, c) ==
    setPixelColor(TabPixColor(img, base, kp, pResizeMapping, pPixMapping, junk, x, y, c),
                  kp.sx1 * kp.sy1)

RECURSIVE InlineMid(_, _, _, _, _, _, _, _, _)
\* while (--x0 > begIdx[0]) addWeitedColor(weight, C, pPix -= C, pixColor);
\* addWeitedColor(rowMult * lenFirst[0], C, pPix - C, pixColor);
InlineMid(img, C, weight, lastWeight, x0, beg0, pPix, c, acc) ==
    IF x0 - 1 > beg0
    THEN InlineMid(img, C, weight, lastWeight, x0 - 1, beg0, pPix - C, c,
                   acc + addWeitedColor(weight, img, pPix - C, c))
    ELSE acc + addWeitedColor(lastWeight, img, pPix - C, c)

\* InlineRow with the right-hand pixel weighted by lenFirst instead of extra
InlineRowLenFirst(img, base, kp, g, rowMult, y0, c) ==
    LET x0 == g.end0
        pPix == base + ((y0 * kp.W0) + x0) * kp.C
        first == addWeitedColor(rowMult * g.lenFirst0, img, pPix, c)
    IN IF x0 > g.beg0
       THEN InlineMid(img, kp.C, rowMult * kp.sx0, rowMult * g.lenFirst0,
                      x0, g.beg0, pPix, c, first)
       ELSE first

\* one pass of the body of while (true), lines 829-839
InlineRow(img, base, kp, g, rowMult, y0, c) ==
    LET x0 == g.end0
        pPix == base + ((y0 * kp.W0) + x0) * kp.C
        first == addWeitedColor(rowMult * g.extra0, img, pPix, c)
    IN IF x0 > g.beg0
       THEN InlineMid(img, kp.C, rowMult * kp.sx0, rowMult * g.lenFirst0,
                      x0, g.beg0, pPix, c, first)
       ELSE first

RECURSIVE InlineRows(_, _, _, _, _, _, _)
\* the loop while (true) { ... }, lines 828-847
InlineRows(img, base, kp, g, rowMult, y0, c) ==
    LET s == InlineRow(img, base, kp, g, rowMult, y0, c)
    IN IF y0 + 1 >= g.end1
       THEN IF y0 + 1 > g.end1 \/ g.extra1 = 0
            THEN s
            ELSE s + InlineRows(img, base, kp, g, g.extra1, y0 + 1, c)
       ELSE s + InlineRows(img, base, kp, g, kp.sy0, y0 + 1, c)

\* DALI_INTERP_LINEAR without pre-calculated tables, lines 812-847:
\* pixColor[c] of destination pixel (x, y) when the loop while (true) is left
InlinePixColor(img, base, kp, x, y, c) ==
    LET nY == (y + kp.cropY) * kp.sy1
        nX == (x + kp.cropX) * kp.sx1
        g == [beg0 |-> nX \div kp.sx0, beg1 |-> nY \div kp.sy0,
              end0 |-> (nX + kp.sx1) \div kp.sx0, end1 |-> (nY + kp.sy1) \div kp.sy0,
              extra0 |-> Min((nX + kp.sx1) % kp.sx0, kp.sx1),
              extra1 |-> Min((nY + kp.sy1) % kp.sy0, kp.sy1),
              lenFirst0 |-> kp.sx0 - (nX % kp.sx0),
              lenFirst1 |-> kp.sy0 - (nY % kp.sy0)]
        rowMult == IF g.end1 > g.beg1 THEN g.lenFirst1 ELSE g.extra1
    IN InlineRows(img, base, kp, g, rowMult, g.beg1, c)

\* DALI_INTERP_LINEAR without pre-calculated tables, lines 812-849
InlineColor(img, base, kp, x, y, c) ==
    setPixelColor(InlinePixColor(img, base, kp, x, y, c), kp.sx1 * kp.sy1)

\* the value ResizeFunc stores for channel c of destination pixel (x, y);
\* tabs holds the three table pointers (an empty sequence is NULL)
PixelColor(img, base, kp, tabs, x, y, c) ==
    IF tabs.pMapping # <<>>
    THEN NNColor(img, base, kp, tabs.pMapping, x, y, c)
    ELSE IF tabs.pPixMapping # <<>> /\ tabs.pResizeMapping # <<>>
    THEN TabColor(img, base, kp, tabs.pResizeMapping, tabs.pPixMapping, tabs.junk,
                  x, y, c)
    ELSE InlineColor(img, base, kp, x, y, c)

\* OutSetup with the output pointer starting at the worker's first row
\* instead of one row shift before it
OutSetupNoShift(kp, pMirrorInfo, mirrorOff, imgIdx, startH, stepH) ==
    LET offset == nYoffset(kp.W, kp.C)
        shift0 == stepH * offset
        out0 == (kp.H * imgIdx + startH) * offset
        m == pMirrorInfo[mirrorOff + imgIdx + 1]
        shift1 == IF m.y THEN -shift0 ELSE shift0
        out1 == IF m.y THEN out0 + (kp.H - 2 * startH - 1) * offset - 2 * shift1
                ELSE out0
        outStep == IF m.x THEN -kp.C ELSE kp.C
        out2 == IF m.x THEN out1 + offset + outStep ELSE out1
    IN [out |-> out2, shift |-> shift1, outStep |-> outStep]

\* OutSetup with the X-mirrored row starting one pixel behind its right edge
OutSetupRowEnd(kp, pMirrorInfo, mirrorOff, imgIdx, startH, stepH) ==
    LET offset == nYoffset(kp.W, kp.C)
        shift0 == stepH * offset
        out0 == (kp.H * imgIdx + startH) * offset - shift0
        m == pMirrorInfo[mirrorOff + imgIdx + 1]
        shift1 == IF m.y THEN -shift0 ELSE shift0
        out1 == IF m.y THEN out0 + (kp.H - 2 * startH - 1) * offset - 2 * shift1
                ELSE out0
        outStep == IF m.x THEN -kp.C ELSE kp.C
        out2 == IF m.x THEN out1 + offset ELSE out1
    IN [out |-> out2, shift |-> shift1, outStep |-> outStep]

\* OutSetup with the output pointer of image 0 for every image
OutSetupFirstImage(kp, pMirrorInfo, mirrorOff, imgIdx, startH, stepH) ==
    LET offset == nYoffset(kp.W, kp.C)
        shift0 == stepH * offset
        out0 == startH * offset - shift0
        m == pMirrorInfo[mirrorOff + imgIdx + 1]
        shift1 == IF m.y THEN -shift0 ELSE shift0
        out1 == IF m.y THEN out0 + (kp.H - 2 * startH - 1) * offset - 2 * shift1
                ELSE out0
        outStep == IF m.x THEN -kp.C ELSE kp.C
        out2 == IF m.x THEN out1 + offset + outStep ELSE out1
    IN [out |-> out2, shift |-> shift1, outStep |-> outStep]

\* lines 756-768: the output pointer before the first row, the row shift and
\* the pixel step of a worker; pMirrorInfo is the array, mirrorOff the
\* offset the caller added to the pointer
OutSetup(kp, pMirrorInfo, mirrorOff, imgIdx, startH, stepH) ==
    LET offset == nYoffset(kp.W, kp.C)
        shift0 == stepH * offset
        out0 == (kp.H * imgIdx + startH) * offset - shift0
        m == pMirrorInfo[mirrorOff + imgIdx + 1]
        shift1 == IF m.y THEN -shift0 ELSE shift0
        out1 == IF m.y THEN out0 + (kp.H - 2 * startH - 1) * offset - 2 * shift1
                ELSE out0
        outStep == IF m.x THEN -kp.C ELSE kp.C
        out2 == IF m.x THEN out1 + offset + outStep ELSE out1
    IN [out |-> out2, shift |-> shift1, outStep |-> outStep]

NoMirror == <<[x |-> FALSE, y |-> FALSE]>>

\* the stores of one destination pixel: <<address, byte>> per channel
PixelWrites(img, base, kp, tabs, out, outStep, x, y) ==
    [c \in 1..kp.C |-> <<out + x * outStep + (c - 1),
                         PixelColor(img, base, kp, tabs, x, y, c - 1)>>]

RECURSIVE RowWrites(_, _, _, _, _, _, _, _, _)
\* for (int x = startW; x < W; x += stepW)
RowWrites(img, base, kp, tabs, out, outStep, stepW, x, y) ==
    IF x >= kp.W THEN <<>>
    ELSE PixelWrites(img, base, kp, tabs, out, outStep, x, y)
         \o RowWrites(img, base, kp, tabs, out, outStep, stepW, x + stepW, y)

RECURSIVE AllRowWrites(_, _, _, _, _, _, _, _, _, _)
\* for (int y = startH; y < H; y += stepH) { out += shift; ... }
AllRowWrites(img, base, kp, tabs, o, startW, stepW, stepH, out, y) ==
    IF y >= kp.H THEN <<>>
    ELSE RowWrites(img, base, kp, tabs, out + o.shift, o.outStep, stepW, startW, y)
         \o AllRowWrites(img, base, kp, tabs, o, startW, stepW, stepH,
                         out + o.shift, y + stepH)

\* the two loops of ResizeFunc, entered with in = img_in + base and with the
\* output pointer, row shift and pixel step o
ResizeLoops(img, base, kp, tabs, o, startW, stepW, startH, stepH) ==
    AllRowWrites(img, base, kp, tabs, o, startW, stepW, stepH, o.out, startH)

\* void ResizeFunc(W0, H0, img_in, W, H, img_out, C, resizeParam, pMirrorInfo,
\*                 imgIdx, startW, stepW, startH, stepH, pMapping,
\*                 pResizeMapping, pPixMapping):
\* the sequence of its stores into img_out, in program order
ResizeFunc(img, kp, pMirrorInfo, mirrorOff, imgIdx, startW, stepW, startH, stepH, tabs) ==
    ResizeLoops(img, kp.H0 * nYoffset(kp.W0, kp.C) * imgIdx, kp, tabs,
                OutSetup(kp, pMirrorInfo, mirrorOff, imgIdx, startH, stepH),
                startW, stepW, startH, stepH)

RECURSIVE Store(_, _)
\* memory after a sequence of stores
Store(mem, ws) ==
    IF ws = <<>> THEN mem
    ELSE Store((ws[1][1] :> ws[1][2]) @@ mem, Tail(ws))

RECURSIVE CountStores(_, _)
\* number of stores per address after a sequence of stores
CountStores(cnt, ws) ==
    IF ws = <<>> THEN cnt
    ELSE CountStores((ws[1][1] :> (IF ws[1][1] \in DOMAIN cnt
                                    THEN cnt[ws[1][1]] + 1 ELSE 1)) @@ cnt,
                     Tail(ws))


(***************************************************************************)
(* Nearest-neighbour tables on the device and one kernel launch.           *)
(***************************************************************************)
RECURSIVE TableThreads(_, _, _, _, _, _, _, _, _, _)
RECURSIVE TableThreadsAfter(_, _, _, _, _, _, _, _, _, _)
\* the threads (tx, ty) of one block of ConstructResizeTables, lines 487-489:
\* each builds its own PixMappingHelper on the block's table resizeMapping
TableThreads(resizeMapping, C, W0, sx0, sy0, sx1, sy1, dimX, dimY, t) ==
    IF t >= dimX * dimY THEN resizeMapping
    ELSE TableThreadsAfter(
            constructTable(NewHelper(sx0 * sy0, <<>>, resizeMapping, sx1 * sy1,
                                     <<>>, FALSE),
                           C, W0, sx0, sy0, sx1, sy1, dimX, dimY,
                           t % dimX, t \div dimX),
            C, W0, sx0, sy0, sx1, sy1, dimX, dimY, t)

\* the threads after thread t, which left the helper r
TableThreadsAfter(r, C, W0, sx0, sy0, sx1, sy1, dimX, dimY, t) ==
    Settled(r, TableThreads(r.closest, C, W0, sx0, sy0, sx1, sy1, dimX, dimY, t + 1))

\* the table one block of ConstructResizeTables leaves in freshly allocated
\* device memory (no slot of two threads coincides, so the order of the
\* threads does not show)
ConstructResizeTables(C, W0, sx0, sy0, sx1, sy1, dimX, dimY) ==
    TableThreads([i \in 1..(sx0 * sy0) |-> Undef], C, W0, sx0, sy0, sx1, sy1,
                 dimX, dimY, 0)

\* the tables of a fresh ResizeMappingTable after constructTable(..., LINEAR)
NoTabs == [pMapping |-> <<>>, pResizeMapping |-> <<>>, pPixMapping |-> <<>>,
           junk |-> ZeroPix]

\* the table pointers of the resize kernel after copyToGPU of the arrays the
\* helper h leaves, the PixMapping array trimmed to the pairs used
LinearTabs(h) ==
    [NoTabs EXCEPT !.pResizeMapping = h.mapping,
                   !.pPixMapping = ResizeSeq(h.pixMapping, h.numPixMapUsed, ZeroPix)]

\* constructTable(..., LINEAR) of a fresh ResizeMappingTable for the steps st
LinearTableOf(st, C, W0) ==
    LinearTabs(constructTable(NewHelper(st.sx0 * st.sy0,
                                        ResizeSeq(<<>>, st.sx0 * st.sy0, ZeroMap),
                                        <<>>, 0, <<>>, TRUE),
                              C, W0, st.sx0, st.sy0, st.sx1, st.sy1, 1, 1, 0, 0))

\* the tables of a fresh ResizeMappingTable after constructTable(..., LINEAR)
FreshLinearTable(H0, W0, H1, W1, C) == LinearTableOf(TableSteps(H0, W0, H1, W1), C, W0)

\* the input raster of the model: H0 * W0 * C bytes
Raster(n) == [a \in 0..(n - 1) |-> (37 * a * a + 11 * a + 5) % 256]

\* the image mirrored on X: column x of every row becomes column W0 - 1 - x
MirrorX(img, H0, W0, C) ==
    [a \in DOMAIN img |->
        LET row == a \div (W0 * C)
            col == (a % (W0 * C)) \div C
            ch == a % C
        IN img[(row * W0 + (W0 - 1 - col)) * C + ch]]

InterpModes == {"nn", "linear_tab", "linear"}

\* the launch of the resize kernel for one image, as BatchedResizeKernel
\* launches it: imgIdx = 0, a blockDim of (stepW, stepH) workers
KernelLaunchOn(img, imgIdx, pMirrorInfo, H0, W0, H1, W1, C, cropX, cropY, W, H, mode, stepW, stepH) ==
    /\ ~kArg.launched
    /\ \E st \in {TableSteps(H0, W0, H1, W1)} :
          kArg' = [launched |-> TRUE,
                   kp |-> [W0 |-> W0, H0 |-> H0, W |-> W, H |-> H, C |-> C,
                           sx0 |-> st.sx0, sy0 |-> st.sy0,
                           sx1 |-> st.sx1, sy1 |-> st.sy1,
                           cropX |-> cropX, cropY |-> cropY],
                   H1 |-> H1, W1 |-> W1, mode |-> mode,
                   tabs |-> IF mode = "nn"
                            THEN [NoTabs EXCEPT !.pMapping =
                                     ConstructResizeTables(C, W0, st.sx0, st.sy0,
                                                           st.sx1, st.sy1,
                                                           stepW, stepH)]
                            ELSE IF mode = "linear_tab"
                            THEN LinearTableOf(st, C, W0)
                            ELSE NoTabs,
                   pMirrorInfo |-> pMirrorInfo, imgIdx |-> imgIdx,
                   img_in |-> img,
                   stepW |-> stepW, stepH |-> stepH]
    /\ kDone' = {}
    /\ img_out' = <<>>
    /\ outCnt' = <<>>

\* the launch on the input raster of the model
KernelLaunch(H0, W0, H1, W1, C, cropX, cropY, W, H, mx, my, mode, stepW, stepH) ==
    KernelLaunchOn(Raster(H0 * W0 * C), 0, <<[x |-> mx, y |-> my]>>,
                   H0, W0, H1, W1, C, cropX, cropY, W, H, mode, stepW, stepH)

\* one worker (thread) of the launch runs ResizeFunc to its end
KernelWorker(startW, startH) ==
    /\ kArg.launched
    /\ <<startW, startH>> \notin kDone
    /\ startW < kArg.stepW /\ startH < kArg.stepH
    /\ \E ws \in {ResizeFunc(kArg.img_in, kArg.kp, kArg.pMirrorInfo, kArg.imgIdx, kArg.imgIdx,
                              startW, kArg.stepW, startH, kArg.stepH, kArg.tabs)} :
          /\ img_out' = Store(img_out, ws)
          /\ outCnt' = CountStores(outCnt, ws)
    /\ kDone' = kDone \cup {<<startW, startH>>}
    /\ UNCHANGED kArg

InitKernel == IdleGrid /\ InitTblVars /\ IdleKern /\ IdleOp /\ IdleSetup /\ IdlePaste /\ IdleLoop

\* the host / test instantiation: one worker, start = (0, 0), step = (1, 1),
\* every pair of sizes; the output is the whole resized image
KernelLaunchHost ==
    /\ ~kArg.launched
    /\ \E H0 \in 1..MaxKDim, W0 \in 1..MaxKDim, H1 \in 1..MaxKDim, W1 \in 1..MaxKDim,
          C \in Channels, mx \in BOOLEAN, my \in BOOLEAN, mode \in InterpModes :
          KernelLaunch(H0, W0, H1, W1, C, 0, 0, W1, H1, mx, my, mode, 1, 1)
    /\ UNCHANGED <<gridVars, tblVars, opVars, streamVars, setupVars, pasteVars, loopVars>>

\* the source sizes of the parallel launches: the output's size and its
\* transpose
GridSources(H1, W1) == {<<H1, W1>>, <<W1, H1>>}

\* the parallel instantiation: a block of stepW x stepH workers, at least
\* two and at most MaxWorkers of them
KernelLaunchGrid ==
    /\ ~kArg.launched
    /\ \E H1 \in 1..MaxKDim, W1 \in 1..MaxKDim,
          C \in Channels, mx \in BOOLEAN, my \in BOOLEAN, mode \in InterpModes,
          stepW \in 1..MaxWorkers, stepH \in 1..MaxWorkers :
          /\ stepW * stepH \in 2..MaxWorkers
          /\ \E src \in GridSources(H1, W1) :
                KernelLaunch(src[1], src[2], H1, W1, C, 0, 0, W1, H1, mx, my, mode,
                             stepW, stepH)
    /\ UNCHANGED <<gridVars, tblVars, opVars, streamVars, setupVars, pasteVars, loopVars>>

\* a 4 x 4 grayscale raster whose upper left 2 x 2 block is {10, 20, 30, 40}
BlockRaster ==
    [a \in 0..(4 * 4 - 1) |->
        IF a = 0 THEN 10 ELSE IF a = 1 THEN 20
        ELSE IF a = 4 THEN 30 ELSE IF a = 4 + 1 THEN 40
        ELSE Raster(4 * 4)[a]]

\* the linear downscale of the 4 x 4 grayscale raster to 2 x 2, by one worker
KernelLaunchBlocks ==
    /\ ~kArg.launched
    /\ \E mode \in {"linear_tab", "linear"}, mx \in BOOLEAN, my \in BOOLEAN :
          KernelLaunchOn(BlockRaster, 0, <<[x |-> mx, y |-> my]>>,
                         4, 4, 2, 2, 1, 0, 0, 2, 2, mode, 1, 1)
    /\ UNCHANGED <<gridVars, tblVars, opVars, streamVars, setupVars, pasteVars, loopVars>>

\* the block of image imgIdx > 0 of BatchedCongenericResizeKernel in a batch
\* of 2 * imgIdx + 1 images of the same sizes, stored one after the other
\* (the raster given ends with image imgIdx); ResizeFunc is handed
\* pMirrorInfo + imagIdx and imgIdx = imagIdx, so the flag it reads is entry
\* 2 * imgIdx of the MirrorFlag array of the batch
KernelLaunchCongeneric ==
    /\ ~kArg.launched
    /\ \E imgIdx \in 1..2, H0 \in 1..2, W0 \in 1..2, H1 \in 1..2, W1 \in 1..2,
          C \in Channels, mx \in BOOLEAN, my \in BOOLEAN, mode \in InterpModes,
          stepW \in 1..2, stepH \in 1..2 :
          KernelLaunchOn(Raster((imgIdx + 1) * H0 * W0 * C), imgIdx,
                         [k \in 1..(2 * imgIdx + 1) |->
                             IF k = 2 * imgIdx + 1 THEN [x |-> mx, y |-> my]
                             ELSE [x |-> ~mx, y |-> ~my]],
                         H0, W0, H1, W1, C, 0, 0, W1, H1, mode, stepW, stepH)
    /\ UNCHANGED <<gridVars, tblVars, opVars, streamVars, setupVars, pasteVars, loopVars>>

KernelWorkerAny ==
    /\ kArg.launched
    /\ \E startW \in 0..(kArg.stepW - 1), startH \in 0..(kArg.stepH - 1) :
          KernelWorker(startW, startH)
    /\ UNCHANGED <<gridVars, tblVars, opVars, streamVars, setupVars, pasteVars, loopVars>>

NextKernel ==
    \/ KernelLaunchHost \/ KernelLaunchGrid \/ KernelLaunchBlocks
    \/ KernelLaunchCongeneric \/ KernelWorkerAny

SpecKernel == InitKernel /\ [][NextKernel]_vars

KernelFinished ==
    /\ kArg.launched
    /\ kDone = (0..(kArg.stepW - 1)) \X (0..(kArg.stepH - 1))

\* the raster of the single invocation start = (0, 0), step = (1, 1)
SingleInvocation(img, pMirrorInfo) ==
    Store(<<>>, ResizeFunc(img, kArg.kp, pMirrorInfo, kArg.imgIdx, kArg.imgIdx,
                           0, 1, 0, 1, kArg.tabs))

OutBytes ==
    (kArg.kp.H * kArg.kp.W * kArg.kp.C * kArg.imgIdx)
        ..(kArg.kp.H * kArg.kp.W * kArg.kp.C * (kArg.imgIdx + 1) - 1)


\* C7: whatever workers of a (stepW, stepH) grid have run so far, in whatever
\* order, no output byte has been stored twice; once all of them have run,
\* every byte of the H * W * C output has been stored exactly once and the
\* raster equals that of the single invocation start = (0, 0), step = (1, 1).
PartitionIndependence ==
    kArg.launched =>
        /\ \A a \in DOMAIN outCnt : outCnt[a] = 1
        /\ KernelFinished =>
              /\ DOMAIN outCnt = OutBytes
              /\ img_out = SingleInvocation(kArg.img_in, kArg.pMirrorInfo)

\* witness of C7: a 2 x 2 grid of workers has finished an image that is
\* mirrored on both axes and has more than one row and column
PartitionIndependenceWitness ==
    /\ KernelFinished
    /\ kArg.stepW = 2 /\ kArg.stepH = 2
    /\ kArg.kp.W = 2 /\ kArg.kp.H = 2 /\ kArg.kp.C = 3
    /\ kArg.pMirrorInfo[1].x /\ kArg.pMirrorInfo[1].y
    /\ kArg.mode = "nn"

IsLinear == kArg.mode \in {"linear_tab", "linear"}

\* the image is the first (or only) one of its batch
FirstImage == kArg.imgIdx = 0

ZeroCrop == kArg.kp.cropX = 0 /\ kArg.kp.cropY = 0

WholeOutput == kArg.kp.W = kArg.W1 /\ kArg.kp.H = kArg.H1

MirroredSourceResize ==
    SingleInvocation(MirrorX(kArg.img_in, kArg.kp.H0, kArg.kp.W0, kArg.kp.C),
                     NoMirror)

MirrorXOnly == kArg.pMirrorInfo[1].x /\ ~kArg.pMirrorInfo[1].y

BlockDim == 32

NoBatch == [run |-> FALSE]

NoTable == [built |-> FALSE]

ZeroGridParam ==
    [s0 |-> [x |-> 0, y |-> 0], s1 |-> [x |-> 0, y |-> 0],
     crop |-> [x |-> 0, y |-> 0]]

\* the sizes of one image: source (H0, W0) and resized (H1, W1); the rows
\* keep their number, the columns are scaled (in a transposed shape it is
\* the other way round)
Shapes ==
    { s \in [H0 : 1..MaxBDim, W0 : 1..MaxBDim, H1 : 1..MaxBDim, W1 : 1..MaxBDim] :
        s.H0 = s.H1 }

\* the shapes of the images of the batches
AllShapes == Shapes \cup { [H0 |-> s.W0, W0 |-> s.H0, H1 |-> s.W1, W1 |-> s.H1] : s \in Shapes }

Transposed(s) == [H0 |-> s.W0, W0 |-> s.H0, H1 |-> s.W1, W1 |-> s.H1]

\* the batches offered to the operator: every image has the shape s, the
\* last one possibly its transpose; the first one (if wider than the crop
\* window) possibly a non-zero crop offset
Batches ==
    { [C |-> c,
       imgs |-> [i \in 1..BatchSize |->
                    LET sh == IF t /\ i = BatchSize THEN Transposed(s) ELSE s
                    IN [H0 |-> sh.H0, W0 |-> sh.W0, H1 |-> sh.H1, W1 |-> sh.W1,
                        cropX |-> IF k /\ i = 1 /\ sh.W1 > 1 THEN 1 ELSE 0,
                        cropY |-> 0]]] :
      c \in Channels, s \in Shapes, t \in BOOLEAN, k \in BOOLEAN }

\* lines 321-327: the steps of every shape, tabulated
ShapeSteps ==
    [s \in AllShapes |-> TableSteps(s.H0, s.W0, s.H1, s.W1)]

\* resizeParam[0] = {sx0, sy0}; resizeParam[1] = {sx1, sy1};
\* resizeParam[2] = {cropX, cropY};
GridParam(st, cropX, cropY) ==
    [s0 |-> [x |-> st.sx0, y |-> st.sy0], s1 |-> [x |-> st.sx1, y |-> st.sy1],
     crop |-> [x |-> cropX, y |-> cropY]]

\* lines 310-327: the three grid parameters of one image
GridParamOf(img) ==
    GridParam(ShapeSteps[[H0 |-> img.H0, W0 |-> img.W0, H1 |-> img.H1,
                          W1 |-> img.W1]], img.cropX, img.cropY)

RECURSIVE SetupLoopNoStore(_, _, _, _)
\* the loop of lines 291-372 without the stores of lines 335-339
SetupLoopNoStore(rp, newResize, imgs, i) ==
    IF i > Len(imgs) THEN [param |-> rp, newResize |-> newResize]
    ELSE SetupLoopNoStore(rp, newResize \/ rp[i] # GridParamOf(imgs[i]), imgs, i + 1)

\* ParamDiffers without the comparison of the crop offset
ParamDiffersNoCrop(resizeParam, fresh) ==
    \/ resizeParam.s0.x # fresh.s0.x \/ resizeParam.s0.y # fresh.s0.y
    \/ resizeParam.s1.x # fresh.s1.x \/ resizeParam.s1.y # fresh.s1.y

\* lines 330-332: the comparison of the stored with the fresh parameters
ParamDiffers(resizeParam, fresh) ==
    \/ resizeParam.s0.x # fresh.s0.x \/ resizeParam.s0.y # fresh.s0.y
    \/ resizeParam.s1.x # fresh.s1.x \/ resizeParam.s1.y # fresh.s1.y
    \/ resizeParam.crop.x # fresh.crop.x \/ resizeParam.crop.y # fresh.crop.y

RECURSIVE SetupLoop(_, _, _, _)
RECURSIVE SetupImage(_, _, _, _, _)
\* the loop of lines 291-372 from image i on: newResize is sticky, and from
\* the first image that differs every stored triple is overwritten
SetupLoop(rp, newResize, imgs, i) ==
    IF i > Len(imgs) THEN [param |-> rp, newResize |-> newResize]
    ELSE SetupImage(rp, newResize, imgs, i, GridParamOf(imgs[i]))

\* lines 329-339 for image i, whose parameters are fresh
SetupImage(rp, newResize, imgs, i, fresh) ==
    SetupLoop(IF newResize \/ ParamDiffers(rp[i], fresh)
              THEN [rp EXCEPT ![i] = fresh] ELSE rp,
              newResize \/ ParamDiffers(rp[i], fresh), imgs, i + 1)

DataDependentSetupGPU(rp, imgs) == SetupLoop(rp, FALSE, imgs, 1)

\* every image has the sizes of the first one
BatchIsCongeneric(imgs) ==
    \A i \in 1..Len(imgs) :
        /\ imgs[i].H0 = imgs[1].H0 /\ imgs[i].W0 = imgs[1].W0
        /\ imgs[i].H1 = imgs[1].H1 /\ imgs[i].W1 = imgs[1].W1

\* what one block of ConstructResizeTables is given: lines 479-489
TableFor(param, C, W0) ==
    [built |-> TRUE, W0 |-> W0, C |-> C, s0 |-> param.s0, s1 |-> param.s1]

\* the device memory CopyResizeTableToGPU hands out: one table for a
\* congeneric batch, one per image otherwise, nothing constructed in it yet
CopyResizeTableToGPU(congeneric) ==
    [i \in 1..(IF congeneric THEN 1 ELSE BatchSize) |-> NoTable]

\* resizeTbl_.IsValid(*sizeIn, *sizeOut, C)
IsValid(tbl, img, C) ==
    /\ tbl.valid
    /\ tbl.H0 = img.H0 /\ tbl.W0 = img.W0 /\ tbl.H1 = img.H1 /\ tbl.W1 = img.W1
    /\ tbl.C = C

\* NewResize<GPUBackend>::RunImpl for the batch b, lines 856-933
RunImpl(b) ==
    \E su \in {DataDependentSetupGPU(resizeParam_, b.imgs)} :
    LET use_NN == interp_type_ = "nn"
        nm == su.newResize
        cong == BatchIsCongeneric(b.imgs)
        sizeIn == b.imgs[1]
        paramGPU == IF cong
                    THEN (IF nm THEN <<su.param[1]>> ELSE resizeParamGPU_)
                    ELSE su.param
        mapPntr == IF nm THEN CopyResizeTableToGPU(cong) ELSE mappingPntr_
        tables == IF ~use_NN THEN mappingPntr_
                  ELSE IF cong
                  THEN (IF nm
                        THEN [mapPntr EXCEPT
                                 ![1] = TableFor(paramGPU[1], b.C, sizeIn.W0)]
                        ELSE mapPntr)
                  ELSE [i \in 1..BatchSize |->
                           TableFor(paramGPU[i], b.C, b.imgs[i].W0)]
        tbl == IF cong /\ ~use_NN /\ (nm \/ ~IsValid(resizeTbl_, sizeIn, b.C))
               THEN [valid |-> TRUE, H0 |-> sizeIn.H0, W0 |-> sizeIn.W0,
                     H1 |-> sizeIn.H1, W1 |-> sizeIn.W1, C |-> b.C]
               ELSE resizeTbl_
    IN /\ batch' = [run |-> TRUE, C |-> b.C, imgs |-> b.imgs, congeneric |-> cong]
       /\ resizeParam_' = su.param
       /\ resizeParamGPU_' = paramGPU
       /\ newMapping' = nm
       /\ mappingPntr_' = tables
       /\ resizeTbl_' = tbl
       /\ UNCHANGED interp_type_

InitBatch ==
    /\ IdleGrid /\ InitTblVars /\ IdleKern /\ IdleStream /\ IdleSetup /\ IdlePaste /\ IdleLoop
    /\ interp_type_ \in {"nn", "linear"}
    /\ batch = NoBatch
    /\ resizeParam_ = [i \in 1..BatchSize |-> ZeroGridParam]
    /\ resizeParamGPU_ = <<>>
    /\ newMapping = FALSE
    /\ mappingPntr_ = <<>>
    /\ resizeTbl_ = [valid |-> FALSE]

RunBatch ==
    /\ \E b \in Batches : RunImpl(b)
    /\ UNCHANGED <<gridVars, tblVars, kernVars, streamVars, setupVars, pasteVars, loopVars>>

NextBatch == RunBatch

SpecBatch == InitBatch /\ [][NextBatch]_vars

\* the two batches agree, image by image, in (H0, W0, H1, W1)
SameSizes(b1, b2) ==
    \A i \in 1..BatchSize :
        /\ b1.imgs[i].H0 = b2.imgs[i].H0 /\ b1.imgs[i].W0 = b2.imgs[i].W0
        /\ b1.imgs[i].H1 = b2.imgs[i].H1 /\ b1.imgs[i].W1 = b2.imgs[i].W1

SameCrops(b1, b2) ==
    \A i \in 1..BatchSize :
        /\ b1.imgs[i].cropX = b2.imgs[i].cropX
        /\ b1.imgs[i].cropY = b2.imgs[i].cropY

CacheInvalidation ==
    [][(batch.run /\ SameCrops(batch, batch')) =>
         IF SameSizes(batch, batch') /\ batch.C = batch'.C
         THEN ~newMapping'
         ELSE newMapping']_vars

\* the table the resize kernel of the last batch read for image i
KernelTable(i) == IF batch.congeneric THEN mappingPntr_[1] ELSE mappingPntr_[i]

\* the table of the source width, channel count and grid parameters that the
\* resize kernel of the last batch used for image i
KernelKey(i) ==
    IF batch.congeneric
    THEN TableFor(resizeParamGPU_[1], batch.C, batch.imgs[1].W0)
    ELSE TableFor(resizeParamGPU_[i], batch.C, batch.imgs[i].W0)

\* the threads of a block beyond the table's extent never enter their loops
ActiveThreads(n) == Min(BlockDim, n)

\* the entries ConstructResizeTables<<<., dim3(32, 32)>>> writes for a key
MappingOf(t) ==
    ConstructResizeTables(t.C, t.W0, t.s0.x, t.s0.y, t.s1.x, t.s1.y,
                          ActiveThreads(t.s0.x), ActiveThreads(t.s0.y))

\* C5: after every batch, the table the resize kernel read for image i holds
\* the entries of a table constructed for the source width, channel count
\* and grid parameters the kernel used for image i; the linear table object
\* was built for the sizes and channel count of the batch.
TableKeyInvariant ==
    batch.run =>
        IF interp_type_ = "nn"
        THEN \A i \in 1..BatchSize :
                /\ KernelTable(i).built
                /\ MappingOf(KernelTable(i)) = MappingOf(KernelKey(i))
        ELSE batch.congeneric => IsValid(resizeTbl_, batch.imgs[1], batch.C)


\* ---------------------------------------------------------------------------
\* One ResizeMappingTable object constructed several times (resizeTbl_ of
\* the operator, line 905), and the resize kernel reading its arrays
\* ---------------------------------------------------------------------------

\* what a read behind the end of the PixMapping array may deliver
JunkPairs == {ZeroPix, [pixAddr |-> 0, pixArea |-> 1]}

\* resizeTbl_.constructTable(...) with DALI_INTERP_LINEAR on the same object
TblRebuild ==
    /\ nBuilt < MaxBuilds
    /\ tblPc = "idle"
    /\ ~kArg.launched
    /\ \E H0 \in 1..MaxRebuildDim, W0 \in 1..MaxRebuildDim,
          H1 \in 1..MaxRebuildDim, W1 \in 1..MaxRebuildDim, C \in Channels :
          TblConstructBegin(H0, W0, H1, W1, C, FALSE)
    /\ UNCHANGED <<gridVars, kernVars, opVars, streamVars, setupVars, pasteVars, loopVars>>

\* the resize of one image of the table's sizes through the arrays of the
\* table object as they are (copyToGPU copies both arrays unchanged)
TblKernelLaunch ==
    /\ tblPc = "idle"
    /\ nBuilt > 0
    /\ ~kArg.launched
    /\ \E j \in JunkPairs :
          kArg' = [launched |-> TRUE,
                   kp |-> [W0 |-> tblArg.W0, H0 |-> tblArg.H0,
                           W |-> tblArg.W1, H |-> tblArg.H1, C |-> tblArg.C,
                           sx0 |-> tblArg.sx0, sy0 |-> tblArg.sy0,
                           sx1 |-> tblArg.sx1, sy1 |-> tblArg.sy1,
                           cropX |-> 0, cropY |-> 0],
                   H1 |-> tblArg.H1, W1 |-> tblArg.W1,
                   mode |-> "linear_tab",
                   tabs |-> [NoTabs EXCEPT !.pResizeMapping = resizeMappingCPU,
                                           !.pPixMapping = pixMappingCPU,
                                           !.junk = j],
                   pMirrorInfo |-> NoMirror, imgIdx |-> 0,
                   img_in |-> Raster(tblArg.H0 * tblArg.W0 * tblArg.C),
                   stepW |-> 1, stepH |-> 1]
    /\ kDone' = {}
    /\ img_out' = <<>>
    /\ outCnt' = <<>>
    /\ UNCHANGED <<gridVars, tblVars, opVars, streamVars, setupVars, pasteVars, loopVars>>

NextRebuild ==
    TblRebuild \/ TblCellStep \/ TblEndStep \/ TblKernelLaunch \/ KernelWorkerAny

SpecRebuild == InitTable /\ [][NextRebuild]_vars

\* the raster of the same resize without pre-calculated tables
InlineRaster ==
    Store(<<>>, ResizeFunc(kArg.img_in, kArg.kp, kArg.pMirrorInfo, 0, 0,
                           0, 1, 0, 1, NoTabs))

\* C8: a finished linear resize through the tables built by
\* ResizeMappingTable::constructTable stores, for every pixel and channel,
\* the value the inline intersection arithmetic stores.
FallbackEquivalence ==
    (KernelFinished /\ kArg.mode = "linear_tab") => img_out = InlineRaster


\* ---------------------------------------------------------------------------
\* The launches of one operator on its CUDA stream: operations of a stream
\* execute one after the other, in the order of their launch
\* ---------------------------------------------------------------------------

NoOp == [kind |-> "none"]

\* the launches of BatchedCongenericResize with the resize kernel first
BatchedCongenericResizeSwapped(ppMapping, newMap) ==
    <<"resize">> \o (IF ppMapping /\ newMap THEN <<"construct">> ELSE <<>>)

\* lines 509-518: the kernels BatchedCongenericResize launches, in order
BatchedCongenericResize(ppMapping, newMap) ==
    (IF ppMapping /\ newMap THEN <<"construct">> ELSE <<>>) \o <<"resize">>

\* lines 545-557: the kernels BatchedResize launches, in order
BatchedResize(ppMapping) ==
    (IF ppMapping THEN <<"construct">> ELSE <<>>) \o <<"resize">>

\* lines 879-932: the stream operations of one RunImpl; rebuild stands for
\* newMapping || !resizeTbl_.IsValid(...) on the linear path
RunImplLaunches(use_NN, congeneric, newMap, rebuild) ==
    IF congeneric
    THEN (IF ~use_NN /\ rebuild THEN <<"copy">> ELSE <<>>)
         \o BatchedCongenericResize(use_NN, newMap)
    ELSE BatchedResize(use_NN)

Builds(ops) == \E k \in 1..Len(ops) : ops[k] \in {"construct", "copy"}

\* the host side of RunImpl: it returns once its operations are queued
StreamLaunch ==
    /\ nLaunched < MaxStreamBatches
    /\ \E congeneric \in BOOLEAN, newMap \in BOOLEAN, rebuild \in BOOLEAN :
          LET use_NN == interp_type_ = "nn"
              ops == RunImplLaunches(use_NN, congeneric, newMap, rebuild)
              ver == nLaunched + 1
              reads == use_NN \/ congeneric
              need == IF Builds(ops) THEN ver ELSE lastBuilt
          IN /\ newMap => rebuild
             /\ (reads /\ lastBuilt = 0) => Builds(ops)
             /\ sQueue' = sQueue \o
                    [k \in 1..Len(ops) |->
                        [kind |-> ops[k], ver |-> ver, need |-> need,
                         reads |-> reads]]
             /\ lastBuilt' = need
    /\ nLaunched' = nLaunched + 1
    /\ UNCHANGED <<sRun, sDone, sRead, devTbl>>

\* the device takes the oldest operation of the stream once the one before
\* it has ended
StreamBegin ==
    /\ sRun.kind = "none"
    /\ sQueue # <<>>
    /\ sRun' = Head(sQueue)
    /\ sQueue' = Tail(sQueue)
    /\ sDone' = {}
    /\ sRead' = {}
    /\ UNCHANGED <<devTbl, nLaunched, lastBuilt>>

\* the entries thread t of a block writes: x = startW, startW + stepW, ...
ThreadEntries(t) == {e \in 1..StreamEntries : (e - 1) % StreamThreads = t - 1}

\* one thread of ConstructResizeTables (or one chunk of the copy of
\* copyToGPU) writes its entries of the device table
StreamWrite ==
    /\ sRun.kind \in {"construct", "copy"}
    /\ \E t \in (1..StreamThreads) \ sDone :
          /\ devTbl' = [e \in 1..StreamEntries |->
                           IF e \in ThreadEntries(t) THEN sRun.ver ELSE devTbl[e]]
          /\ sDone' = sDone \cup {t}
    /\ UNCHANGED <<sQueue, sRun, sRead, nLaunched, lastBuilt>>

\* one worker of the resize kernel reads the table entries of its pixels
StreamRead ==
    /\ sRun.kind = "resize"
    /\ \E w \in (1..StreamThreads) \ sDone :
          /\ sRead' = IF sRun.reads
                      THEN sRead \cup {devTbl[e] : e \in 1..StreamEntries}
                      ELSE sRead
          /\ sDone' = sDone \cup {w}
    /\ UNCHANGED <<sQueue, sRun, devTbl, nLaunched, lastBuilt>>

StreamEnd ==
    /\ sRun.kind # "none"
    /\ sDone = 1..StreamThreads
    /\ sRun' = NoOp
    /\ UNCHANGED <<sQueue, sDone, sRead, devTbl, nLaunched, lastBuilt>>

InitStream ==
    /\ IdleGrid /\ InitTblVars /\ IdleKern /\ IdleSetup /\ IdlePaste /\ IdleLoop
    /\ interp_type_ \in {"nn", "linear"}
    /\ batch = NoBatch
    /\ resizeParam_ = <<>>
    /\ resizeParamGPU_ = <<>>
    /\ newMapping = FALSE
    /\ mappingPntr_ = <<>>
    /\ resizeTbl_ = [valid |-> FALSE]
    /\ sQueue = <<>>
    /\ sRun = NoOp
    /\ sDone = {}
    /\ sRead = {}
    /\ devTbl = [e \in 1..StreamEntries |-> 0]
    /\ nLaunched = 0
    /\ lastBuilt = 0

StreamIdleRest == UNCHANGED <<gridVars, tblVars, kernVars, opVars, setupVars, pasteVars, loopVars>>

StreamLaunchStep == StreamLaunch /\ StreamIdleRest

StreamBeginStep == StreamBegin /\ StreamIdleRest

StreamWriteStep == StreamWrite /\ StreamIdleRest

StreamReadStep == StreamRead /\ StreamIdleRest

StreamEndStep == StreamEnd /\ StreamIdleRest

NextStream ==
    \/ StreamLaunchStep
    \/ StreamBeginStep
    \/ StreamWriteStep
    \/ StreamReadStep
    \/ StreamEndStep

SpecStream == InitStream /\ [][NextStream]_vars

\* C6: while the resize kernel of a batch runs, every entry of the table it
\* reads carries the writes of the last construction launched up to that
\* batch, and no worker has read anything else.
HappensBefore ==
    (sRun.kind = "resize" /\ sRun.reads) =>
        /\ \A e \in 1..StreamEntries : devTbl[e] = sRun.need
        /\ sRead \subseteq {sRun.need}

\* witness of C6: a worker of the second batch has read the table that the
\* second batch rebuilt
HappensBeforeWitness ==
    /\ sRun.kind = "resize" /\ sRun.reads
    /\ sRun.ver = 2 /\ sRun.need = 2
    /\ sDone # {}
    /\ sRead = {2}


(***************************************************************************)
(* The nearest-neighbour table.                                            *)
(***************************************************************************)
\* C11: the nearest-neighbour table a resize kernel is launched with has
\* sx0 * sy0 entries, every one written (no entry is still the content of
\* the fresh device memory) and every one an address in [0, H0 * W0 * C).
NNValidity ==
    (kArg.launched /\ kArg.mode = "nn") =>
        /\ Len(kArg.tabs.pMapping) = kArg.kp.sx0 * kArg.kp.sy0
        /\ \A e \in 1..Len(kArg.tabs.pMapping) :
              kArg.tabs.pMapping[e] \in 0..(kArg.kp.H0 * kArg.kp.W0 * kArg.kp.C - 1)

\* the columns x0 of one row of a sub-cell's intersection region, in the
\* order of lines 644-656: the right-hand pixel if it is cut (extra[0] # 0),
\* then endIdx[0] - 1 down to 0
ScanCols(g) ==
    (IF g.extra0 # 0 THEN <<g.endIdx0>> ELSE <<>>)
    \o [k \in 1..g.endIdx0 |-> g.endIdx0 - k]

\* the number of rows y0 the loop of lines 641-667 runs for a sub-cell
ScanRows(g) ==
    IF g.endIdx1 = 0 THEN 1
    ELSE IF g.extra1 # 0 THEN g.endIdx1 + 1 ELSE g.endIdx1

\* the pixels of the intersection region of a sub-cell in scan order, each
\* with its relative address and its squared distance to the doubled centre
\* (lenX, lenY) handed to UpdateMapping
ScanPixels(g, W0, C) ==
    [i \in 1..(ScanRows(g) * Len(ScanCols(g))) |->
        LET y0 == (i - 1) \div Len(ScanCols(g))
            x0 == ScanCols(g)[((i - 1) % Len(ScanCols(g))) + 1]
        IN [addr |-> (y0 * W0 + x0) * C,
            dist |-> distance(2 * x0 - g.lenX, 2 * y0 - g.lenY)]]

\* the address of the first pixel of least distance
FirstClosest(pix) ==
    pix[CHOOSE i \in 1..Len(pix) :
            /\ \A j \in 1..Len(pix) : pix[j].dist >= pix[i].dist
            /\ \A j \in 1..(i - 1) : pix[j].dist > pix[i].dist].addr

\* C12: after a nearest-neighbour construction by one PixMappingHelper, the
\* entry of every sub-cell is the address of the pixel of its own
\* intersection region closest to its centre, the first one in scan order
\* on ties, whatever sub-cells were processed before it.
NNSelection ==
    (nBuilt = 0 /\ tblPc = "trim" /\ tblArg.use_NN) =>
        \A x \in 0..(tblArg.sx0 - 1), y \in 0..(tblArg.sy0 - 1) :
            LET g == CellGeom(tblArg.sx0, tblArg.sy0, tblArg.sx1, tblArg.sy1, x, y)
            IN resizeMappingSimpleCPU[g.shift + 1]
               = FirstClosest(ScanPixels(g, tblArg.W0, tblArg.C))


(* The rounded area-weighted average of linear interpolation. *)
Max(a, b) == IF a > b THEN a ELSE b

\* the length the cells [src * s0, (src + 1) * s0) and [dst * s1, (dst + 1) * s1)
\* of the lcm grid share on one axis
Overlap(src, s0, dst, s1) ==
    Max(0, Min((src + 1) * s0, (dst + 1) * s1) - Max(src * s0, dst * s1))

RECURSIVE OverlapSum(_, _, _, _, _, _)
\* the sum, over the source pixels k, k + 1, ... of the raster, of the area a
\* pixel shares with destination pixel (x, y) times its value of channel c
OverlapSum(img, kp, x, y, c, k) ==
    IF k >= kp.H0 * kp.W0 THEN 0
    ELSE Overlap(k % kp.W0, kp.sx0, x + kp.cropX, kp.sx1)
            * Overlap(k \div kp.W0, kp.sy0, y + kp.cropY, kp.sy1)
            * img[k * kp.C + c]
         + OverlapSum(img, kp, x, y, c, k + 1)

\* where channel c of output pixel (x, y) is stored
OutAddr(kp, m, x, y, c) ==
    ((IF m.y THEN kp.H - 1 - y ELSE y) * kp.W
        + (IF m.x THEN kp.W - 1 - x ELSE x)) * kp.C + c

SetupBatchSize == 5
\* BATCH_SLICE_NUMB, the number of slices of a batch
BatchSliceNumb == 2

\* DALI_ENFORCE(cond, ...): control goes on to pc if cond holds, the
\* configuration error is thrown otherwise
DALI_ENFORCE(cond, pc) == IF cond THEN pc ELSE "error"

\* a size_t of value 0
ZeroSizeT == [k \in 0..7 |-> 0]

\* UINT_MAX, converted to size_t
UIntMax == [k \in 0..7 |-> IF k < 4 THEN 255 ELSE 0]

\* the 32 bits of the int a (two's complement), as base-256 digits
IntBits(a) ==
    IF a >= 0 THEN [k \in 0..3 |-> Digit(a, k)]
    ELSE [k \in 0..3 |-> Digit(a + 2147483647 + 1, k) + (IF k = 3 THEN 128 ELSE 0)]

\* the conversion of the int a to size_t: sign extension
IntToSizeT(a) ==
    [k \in 0..7 |-> IF k < 4 THEN IntBits(a)[k] ELSE IF a < 0 THEN 255 ELSE 0]

\* UINT_MAX - a, computed in unsigned int, converted to size_t
UIntMaxMinus(a) == [k \in 0..7 |-> IF k < 4 THEN 255 - IntBits(a)[k] ELSE 0]

RECURSIVE LessFrom(_, _, _)
\* a < b for the digits k, k - 1, ..., 0
LessFrom(a, b, k) ==
    IF k < 0 THEN FALSE
    ELSE IF a[k] # b[k] THEN a[k] < b[k]
    ELSE LessFrom(a, b, k - 1)

\* a < b of two size_t
LessSizeT(a, b) == LessFrom(a, b, 7)

RECURSIVE AddCol(_, _, _)
\* digit k of a + b with the carry of the digits below it
AddCol(a, b, k) ==
    IF k = 0 THEN a[0] + b[0]
    ELSE a[k] + b[k] + (AddCol(a, b, k - 1) \div 256)

\* a + b of two size_t (modulo 2^64)
AddSizeT(a, b) == [k \in 0..7 |-> AddCol(a, b, k) % 256]

\* lines 341-348 with area the int sx0 * sy0:
\*   if (pTotalSize[idx] < UINT_MAX - sx0 * sy0) pTotalSize[idx] += sx0 * sy0;
\*   else pTotalSize[idx] = UINT_MAX;
AddToTotal(total, area) ==
    IF LessSizeT(total, UIntMaxMinus(area))
    THEN AddSizeT(total, IntToSizeT(area))
    ELSE UIntMax

\* the resized extents of the images: a small one, one whose square fits an
\* int and one whose square is 2^32
SetupDims == {1, 40000, 65536}

SetupImage1(d, C, ndim, m) ==
    [ndim |-> ndim, C |-> C, H0 |-> 1, W0 |-> 1, H1 |-> d, W1 |-> d,
     cropX |-> 0, cropY |-> 0, mx |-> m, my |-> FALSE]

\* batches of well-formed RGB images: all of extent d1 but image p
SizeBatches ==
    { [i \in 1..SetupBatchSize |-> SetupImage1(IF i = p THEN d2 ELSE d1, 3, 3, FALSE)] :
        d1 \in SetupDims, d2 \in SetupDims, p \in 1..SetupBatchSize }

\* batches of small images with and without the mirror flag
MirrorBatches ==
    { [i \in 1..SetupBatchSize |-> SetupImage1(d, C, 3, m)] :
        d \in {1, 2}, C \in Channels, m \in BOOLEAN }

\* batches with one image p that is not a 3-dimensional image of 1 or 3
\* channels
BadBatches ==
    { [i \in 1..SetupBatchSize |->
          IF i = p THEN SetupImage1(1, bad[1], bad[2], FALSE)
          ELSE SetupImage1(1, C, 3, FALSE)] :
        C \in {3}, p \in 1..SetupBatchSize,
        bad \in {<<2, 3>>, <<4, 3>>, <<3, 2>>} }

SetupBatches == SizeBatches \cup MirrorBatches \cup BadBatches

NoMirrorFlag == [x |-> FALSE, y |-> FALSE]

NoDevice == [gridParam |-> <<>>, mirror |-> <<>>, sizes |-> <<>>, imgs |-> <<>>,
             linearTable |-> <<>>, pResizeMapping |-> <<>>]

\* the operator after its construction
InitSetup ==
    /\ IdleGrid /\ InitTblVars /\ IdleKern /\ IdleOp
    /\ IdlePaste /\ IdleLoop
    /\ suPc \in {"idle", "cpu"}
    /\ suNN \in BOOLEAN
    /\ suBatch = <<>>
    /\ suPrev = <<>>
    /\ suI = 0
    /\ suNewResize = FALSE
    /\ suParam = [i \in 1..SetupBatchSize |->
                     [grid |-> ZeroGridParam, mirror |-> NoMirrorFlag]]
    /\ pTotalSize = [k \in 1..BatchSliceNumb |-> ZeroSizeT]
    /\ suDev = NoDevice
    /\ suLog = {}
    /\ cpuOp = [op |-> "none"]

\* RunImpl up to the loop of DataDependentSetupGPU: lines 856-290
RunBegin(b) ==
    /\ suPc = "idle"
    /\ suPc' = "setup"
    /\ suBatch' = b
    /\ suI' = 1
    /\ suNewResize' = FALSE
    /\ pTotalSize' = IF suNN THEN [k \in 1..BatchSliceNumb |-> ZeroSizeT]
                     ELSE pTotalSize
    /\ suLog' = {}
    /\ UNCHANGED <<suNN, suPrev, suParam, suDev, cpuOp>>

\* lines 310-350 for image i, whose steps are st
SetupGrid(i, img, st) ==
    \E nr \in {suNewResize \/ ParamDiffers(suParam[i].grid, GridParam(st, img.cropX, img.cropY))} :
        /\ suNewResize' = nr
        /\ suParam' = [suParam EXCEPT
                          ![i] = [grid |-> IF nr THEN GridParam(st, img.cropX, img.cropY)
                                           ELSE @.grid,
                                  mirror |-> [x |-> img.mx, y |-> img.my]]]
        /\ pTotalSize' =
              IF suNN
              THEN [pTotalSize EXCEPT
                       ![((i - 1) % BatchSliceNumb) + 1] =
                           AddToTotal(@, MulInt(st.sx0, st.sy0))]
              ELSE pTotalSize

\* InputVerified without the test of the channel count
InputVerifiedAnyC(img) == img.ndim = 3

\* lines 294-298: input_shape.size() == 3, input_shape[2] == 1 || == 3
InputVerified(img) == img.ndim = 3 /\ img.C \in {1, 3}

\* one pass of the loop of DataDependentSetupGPU, lines 291-372
SetupStep ==
    /\ suPc = "setup"
    /\ suI <= SetupBatchSize
    /\ \E img \in {suBatch[suI]} :
          IF DALI_ENFORCE(InputVerified(img), "setup") = "error"
          THEN /\ suPc' = "error"
               /\ UNCHANGED <<suI, suNewResize, suParam, pTotalSize>>
          ELSE /\ SetupGrid(suI, img, TableSteps(img.H0, img.W0, img.H1, img.W1))
               /\ suI' = suI + 1
               /\ suPc' = IF suI = SetupBatchSize THEN "dispatch" ELSE "setup"
    /\ UNCHANGED <<suNN, suBatch, suPrev, suDev, suLog, cpuOp>>

\* BatchIsCongeneric(sizeIn, sizeOut, C) for the batch b
SetupCongeneric(b) ==
    \A i \in 1..Len(b) :
        /\ b[i].H0 = b[1].H0 /\ b[i].W0 = b[1].W0
        /\ b[i].H1 = b[1].H1 /\ b[i].W1 = b[1].W1
        /\ b[i].C = b[1].C

LinearKey(img) == <<img.H0, img.W0, img.H1, img.W1, img.C>>

\* what lines 878-932 issue: host-to-device copies, table constructions and
\* the launch of the resampling kernel
DispatchLog(b, nm) ==
    (IF suNN /\ nm THEN {"copy:table"} ELSE {})
    \cup (IF SetupCongeneric(b)
          THEN (IF nm THEN {"copy:gridParam"} ELSE {})
               \cup {"copy:mirror"}
               \cup (IF ~suNN /\ (nm \/ suDev.linearTable # LinearKey(b[1]))
                     THEN {"construct:linear", "copy:linearTable"} ELSE {})
               \cup (IF suNN /\ nm THEN {"construct:nn"} ELSE {})
          ELSE {"copy:gridParam", "copy:sizes", "copy:imgs"}
               \cup (IF suNN THEN {"construct:nn"} ELSE {}))
    \cup {"kernel"}

\* resizeParam[idx * N_GRID_PARAMS].x * resizeParam[idx * N_GRID_PARAMS].y,
\* the product of two ints, converted to the type of the pointer offset
ParamArea(resizeParam, idx) ==
    IntToSizeT(MulInt(resizeParam[idx + 1].s0.x, resizeParam[idx + 1].s0.y))

RECURSIVE SliceOffset(_, _, _, _, _, _)
\* lines 469-470, resizeMapping counted in entries from the base of its slice:
\*   for (size_t i = idx + nBatchSlice; i < imagIdx; idx = i, i += nBatchSlice)
\*     resizeMapping += resizeParam[idx * N_GRID_PARAMS].x * ...y;
SliceOffset(resizeParam, nBatchSlice, imagIdx, idx, i, resizeMapping) ==
    IF i < imagIdx
    THEN SliceOffset(resizeParam, nBatchSlice, imagIdx, i, i + nBatchSlice,
                     AddSizeT(resizeMapping, ParamArea(resizeParam, idx)))
    ELSE resizeMapping

\* lines 464-489 for the block of image imagIdx (from 0) with nBatchSlice > 1:
\* the slice of the image, where its table starts in the memory of the
\* slice (what the block stores in pResizeMapping[imagIdx]) and the number
\* of entries, sx0 * sy0 slots in size_t, the workers of the block write
TableRegion(resizeParam, nBatchSlice, imagIdx) ==
    [slice |-> imagIdx % nBatchSlice,
     start |-> SliceOffset(resizeParam, nBatchSlice, imagIdx, imagIdx % nBatchSlice,
                           (imagIdx % nBatchSlice) + nBatchSlice, ZeroSizeT),
     len |-> ExactMul(resizeParam[imagIdx + 1].s0.x, resizeParam[imagIdx + 1].s0.y)]

\* the device buffers after the copies and the table construction of lines
\* 878-932
DispatchDev(b, nm) ==
    IF SetupCongeneric(b)
    THEN [suDev EXCEPT
             !.gridParam = IF nm THEN <<suParam[1].grid>> ELSE @,
             !.mirror = [i \in 1..Len(b) |-> suParam[i].mirror],
             !.linearTable = IF ~suNN THEN LinearKey(b[1]) ELSE @]
    ELSE [suDev EXCEPT
             !.gridParam = [i \in 1..Len(b) |-> suParam[i].grid],
             !.mirror = [i \in 1..Len(b) |-> suParam[i].mirror],
             !.sizes = [i \in 1..Len(b) |-> <<b[i].H0, b[i].W0, b[i].H1, b[i].W1>>],
             !.imgs = [i \in 1..Len(b) |-> i],
             !.pResizeMapping =
                 IF suNN
                 THEN [i \in 1..Len(b) |->
                          TableRegion([j \in 1..Len(b) |-> suParam[j].grid],
                                      BatchSliceNumb, i - 1)]
                 ELSE @]

\* RunImpl after DataDependentSetupGPU has returned newMapping, lines 870-932
Dispatch ==
    /\ suPc = "dispatch"
    /\ suPc' = "idle"
    /\ suLog' = DispatchLog(suBatch, suNewResize)
    /\ suDev' = DispatchDev(suBatch, suNewResize)
    /\ suPrev' = suBatch
    /\ UNCHANGED <<suNN, suBatch, suI, suNewResize, suParam, pTotalSize, cpuOp>>

\* void DataDependentSetupCPU(input, output, ...), lines 240-271: "error" if
\* it throws, "done" if it returns
DataDependentSetupCPU(ndim, C) ==
    DALI_ENFORCE(ndim = 3, DALI_ENFORCE(C = 1 \/ C = 3, "done"))

\* a CPU operator calls DataDependentSetupCPU on a sample and resamples it
\* after the return
CpuSetup ==
    /\ suPc = "cpu"
    /\ \E ndim \in {2, 3}, C \in 1..4 :
          cpuOp' = [op |-> "DataDependentSetupCPU", ndim |-> ndim, C |-> C,
                    raised |-> DataDependentSetupCPU(ndim, C) = "error",
                    kernel |-> DataDependentSetupCPU(ndim, C) = "done"]
    /\ UNCHANGED <<suPc, suNN, suBatch, suPrev, suI, suNewResize, suParam, pTotalSize,
                   suDev, suLog>>

\* DALIError_t ValidateCrop(in_img, H, W, C, out_img), lines 93-100;
\* DALI_ASSERT returns DALIError unless its condition holds
ValidateCrop(in_img, H, W, C, out_img) ==
    IF H > 0 /\ W > 0 /\ (C = 1 \/ C = 3) /\ in_img /\ out_img
    THEN "DALISuccess" ELSE "DALIError"

\* Crop<CPUBackend>::RunHelper, lines 158-170: PrepareCropParam, whose
\* DALI_CALL throws unless ValidateCrop returns DALISuccess, then CropKernel
CropRunHelper ==
    /\ suPc = "cpu"
    /\ \E H \in 0..1, W \in 0..1, C \in 1..4, in_img \in BOOLEAN, out_img \in BOOLEAN :
          cpuOp' = [op |-> "Crop::RunHelper", H |-> H, W |-> W, C |-> C,
                    raised |-> ValidateCrop(in_img, H, W, C, out_img) # "DALISuccess",
                    kernel |-> ValidateCrop(in_img, H, W, C, out_img) = "DALISuccess"]
    /\ UNCHANGED <<suPc, suNN, suBatch, suPrev, suI, suNewResize, suParam, pTotalSize,
                   suDev, suLog>>

CpuSetupStep == CpuSetup /\ UNCHANGED <<gridVars, tblVars, kernVars, opVars, streamVars, pasteVars, loopVars>>

CropRunStep == CropRunHelper /\ UNCHANGED <<gridVars, tblVars, kernVars, opVars, streamVars, pasteVars, loopVars>>

RunBeginStep ==
    /\ \E b \in SetupBatches : RunBegin(b)
    /\ UNCHANGED <<gridVars, tblVars, kernVars, opVars, streamVars, pasteVars, loopVars>>

SetupLoopStep == SetupStep /\ UNCHANGED <<gridVars, tblVars, kernVars, opVars, streamVars, pasteVars, loopVars>>

DispatchStep == Dispatch /\ UNCHANGED <<gridVars, tblVars, kernVars, opVars, streamVars, pasteVars, loopVars>>

NextSetup ==
    RunBeginStep \/ SetupLoopStep \/ DispatchStep \/ CpuSetupStep \/ CropRunStep

SpecSetup == InitSetup /\ [][NextSetup]_vars

(* Validation of the channel count. *)
BadChannels(b) == {i \in 1..Len(b) : b[i].ndim = 3 /\ b[i].C \notin {1, 3}}

\* C14: a batch with an image of a channel count other than 1 or 3 never gets
\* past that image in the setup loop: the error is raised there, and no copy,
\* table construction or kernel is issued for the batch; a CPU operator
\* given such a sample raises before its kernel runs.
ChannelValidation ==
    /\ \A i \in BadChannels(suBatch) :
          /\ suLog = {}
          /\ suPc = "error" \/ (suPc = "setup" /\ suI <= i)
    /\ (cpuOp.op # "none" /\ cpuOp.C \notin {1, 3}) => (cpuOp.raised /\ ~cpuOp.kernel)

\* witness of C14: the error raised at the third image, of 2 channels, after
\* two images of the batch have been set up
ChannelValidationWitness ==
    /\ suPc = "error" /\ suI = 3 /\ suNN
    /\ BadChannels(suBatch) = {3} /\ suBatch[3].C = 2
    /\ suLog = {}


(* The per-slice totals of the table sizes. *)
\* the exact product sx0 * sy0 of the steps st
ExactArea(st) == ExactMul(st.sx0, st.sy0)

RECURSIVE SliceSum(_, _, _)
\* the sum of the exact products sx0 * sy0 of the images i, i + 1, ... of the
\* batch b that belong to slice k (image index modulo the number of slices)
SliceSum(b, k, i) ==
    IF i > Len(b) THEN ZeroSizeT
    ELSE IF (i - 1) % BatchSliceNumb # k THEN SliceSum(b, k, i + 1)
    ELSE AddSizeT(ExactArea(TableSteps(b[i].H0, b[i].W0, b[i].H1, b[i].W1)),
                  SliceSum(b, k, i + 1))

\* C18: when the setup loop of a nearest-neighbour operator has finished,
\* the total of every slice k is min(UINT_MAX, sum of sx0 * sy0 over the
\* images of the slice).
SaturatingTotals ==
    (suNN /\ suPc = "dispatch") =>
        \A k \in 0..(BatchSliceNumb - 1) :
            pTotalSize[k + 1] = IF LessSizeT(SliceSum(suBatch, k, 1), UIntMax)
                                THEN SliceSum(suBatch, k, 1) ELSE UIntMax


(* Host-to-device copies. *)
Copies(log) == log \cap {"copy:table", "copy:gridParam", "copy:mirror", "copy:sizes",
                         "copy:imgs", "copy:linearTable"}

\* C19: a RunImpl that found no rebuild (newMapping is false) on a batch
\* equal to the batch of the RunImpl before it issues no host-to-device copy
\* and leaves the device buffers as they were.
TransferOnlyOnChange ==
    [][(suPc = "dispatch" /\ suPc' = "idle" /\ ~suNewResize /\ suBatch = suPrev)
       => (Copies(suLog') = {} /\ suDev' = suDev)]_vars


(* The resource limit of the grid calculator. *)
\* the exact value d (8 base-256 digits) fits a 32-bit unsigned counter
FitsCounter(d) == \A k \in 4..7 : d[k] = 0

\* C17: the grid calculation comes to its end (rather than failing with a
\* resource-limit error) only if the lcm of the extents and the product of
\* the exact steps fit a 32-bit counter.
ResourceLimit ==
    gridPc = "done" =>
        /\ FitsCounter(ExactMul(DivInt(dim0, gcf(dim0, dim1)), dim1))
        /\ FitsCounter(ExactMul(DivInt(dim1, gcf(dim0, dim1)),
                                DivInt(dim0, gcf(dim0, dim1))))


(***************************************************************************)
(* Paste::Prepare.  A float is held as a count of quarters (1.5 is 6), a   *)
(* product of two floats as a count of sixteenths; a float has 24          *)
(* significant bits, and the conversion of a float to int truncates.       *)
(***************************************************************************)
RECURSIVE Pow2(_)
Pow2(e) == IF e = 0 THEN 1 ELSE 2 * Pow2(e - 1)

RECURSIVE ExpOf(_, _)
\* the least e from e0 on with n < 2^(24 + e)
ExpOf(n, e0) == IF n \div Pow2(e0) < 16777216 THEN e0 ELSE ExpOf(n, e0 + 1)

\* n >= 0 rounded to 24 significant bits with unit u, ties to even
RoundBits(n, u) ==
    IF n % u > u \div 2 \/ (n % u = u \div 2 /\ u > 1 /\ (n \div u) % 2 = 1)
    THEN (n \div u + 1) * u
    ELSE (n \div u) * u

\* the float nearest to n (in any fixed binary unit)
RoundFloat(n) ==
    IF n >= 0 THEN RoundBits(n, Pow2(ExpOf(n, 0)))
    ELSE -RoundBits(-n, Pow2(ExpOf(-n, 0)))

\* the conversion of the int n to float, in quarters
IntToFloat(n) == 4 * RoundFloat(n)

\* the float product a * b of two floats (quarters), in sixteenths
FloatMul(a, b) == RoundFloat(a * b)

\* static_cast<int> of a float given in sixteenths: truncation toward zero
FloatToInt(p) == IF p >= 0 THEN p \div 16 ELSE -((-p) \div 16)

\* the extents of the samples: small ones and one above 2^24
PasteExtents == {1, 4, 16777217}

\* ratio, paste_x, paste_y offered to the operator, in quarters
PasteRatios == {2, 3, 4, 6, 8}
PasteFractions == {-1, 0, 1, 2, 4, 5}

\* lines 83-99 once the shape and the ratio have passed
PreparePaste(H, W, C, new_H, new_W, paste_x_, paste_y_) ==
    IF paste_x_ >= 0 /\ paste_x_ <= 4 /\ paste_y_ >= 0 /\ paste_y_ <= 4
    THEN [raised |-> FALSE,
          dims |-> <<H, W, new_H, new_W,
                     FloatToInt(FloatMul(paste_y_, IntToFloat(new_H - H))),
                     FloatToInt(FloatMul(paste_x_, IntToFloat(new_W - W)))>>,
          shape |-> <<new_H, new_W, C>>]
    ELSE [raised |-> TRUE]

\* Prepare without the test of the ratio
PrepareAnyRatio(input_shape, ratio, paste_x_, paste_y_) ==
    IF Len(input_shape) # 3 THEN [raised |-> TRUE]
    ELSE PreparePaste(input_shape[1], input_shape[2], input_shape[3],
                      FloatToInt(FloatMul(ratio, IntToFloat(input_shape[1]))),
                      FloatToInt(FloatMul(ratio, IntToFloat(input_shape[2]))),
                      paste_x_, paste_y_)

\* Dims Prepare(input_shape, spec, ws, i, sample_dims_paste_yx), lines 69-100:
\* raised tells whether a DALI_ENFORCE threw, dims is what is written to
\* *sample_dims_paste_yx, shape what is returned
Prepare(input_shape, ratio, paste_x_, paste_y_) ==
    IF Len(input_shape) # 3 THEN [raised |-> TRUE]
    ELSE IF ~(ratio >= 4) THEN [raised |-> TRUE]
    ELSE PreparePaste(input_shape[1], input_shape[2], input_shape[3],
                      FloatToInt(FloatMul(ratio, IntToFloat(input_shape[1]))),
                      FloatToInt(FloatMul(ratio, IntToFloat(input_shape[2]))),
                      paste_x_, paste_y_)

PasteShapes ==
    { <<H, W, 3>> : H \in PasteExtents, W \in PasteExtents }
    \cup { <<H, 4>> : H \in PasteExtents }
    \cup { <<H, 4, 3, 1>> : H \in PasteExtents }

\* a sample and its arguments, Prepare about to be called
InitPaste ==
    /\ IdleGrid /\ InitTblVars /\ IdleKern /\ IdleOp /\ IdleSetup /\ IdleLoop
    /\ pasteArg \in [input_shape : PasteShapes, ratio : PasteRatios,
                      paste_x : PasteFractions, paste_y : PasteFractions]
    /\ pastePc = "call"
    /\ sample_dims_paste_yx = <<>>

\* the call of Prepare for the sample
PrepareCall ==
    /\ pastePc = "call"
    /\ \E r \in {Prepare(pasteArg.input_shape, pasteArg.ratio, pasteArg.paste_x,
                          pasteArg.paste_y)} :
          IF r.raised
          THEN pastePc' = "error" /\ UNCHANGED sample_dims_paste_yx
          ELSE pastePc' = "returned" /\ sample_dims_paste_yx' = r.dims
    /\ UNCHANGED pasteArg
    /\ UNCHANGED <<gridVars, tblVars, kernVars, opVars, streamVars, setupVars, loopVars>>

NextPaste == PrepareCall

SpecPaste == InitPaste /\ [][NextPaste]_vars

\* C15: if the shape has not exactly 3 dimensions, the ratio is below 1 or
\* paste_x or paste_y is outside [0, 1], the call of Prepare ends in the
\* configuration error and the record of the sample stays unwritten.
ArgumentValidation ==
    (/\ pastePc # "call"
     /\ \/ Len(pasteArg.input_shape) # 3
        \/ pasteArg.ratio < 4
        \/ pasteArg.paste_x < 0 \/ pasteArg.paste_x > 4
        \/ pasteArg.paste_y < 0 \/ pasteArg.paste_y > 4)
    => (pastePc = "error" /\ sample_dims_paste_yx = <<>>)

\* witness of C15: the call has raised on a ratio of 0.75 with a
\* 3-dimensional shape and positions inside [0, 1]
ArgumentValidationWitness ==
    /\ pastePc = "error" /\ sample_dims_paste_yx = <<>>
    /\ Len(pasteArg.input_shape) = 3 /\ pasteArg.ratio = 3
    /\ pasteArg.paste_x = 2 /\ pasteArg.paste_y = 0

\* C16: a call of Prepare that returns has written new_H >= H, new_W >= W
\* and offsets with 0 <= paste_y <= new_H - H and 0 <= paste_x <= new_W - W.
OffsetRange ==
    pastePc = "returned" =>
        /\ sample_dims_paste_yx[3] >= sample_dims_paste_yx[1]
        /\ sample_dims_paste_yx[4] >= sample_dims_paste_yx[2]
        /\ sample_dims_paste_yx[5] \in 0..(sample_dims_paste_yx[3] - sample_dims_paste_yx[1])
        /\ sample_dims_paste_yx[6] \in 0..(sample_dims_paste_yx[4] - sample_dims_paste_yx[2])

(* Output bounds under mirroring. *)
\* the flag ResizeFunc reads for the image of the launch
FlagRead == kArg.pMirrorInfo[2 * kArg.imgIdx + 1]

\* C20: whatever workers of a launch for image imgIdx have run, every byte
\* stored so far lies in the H * W * C bytes of that image; once all have
\* run, channel c of output pixel (x, y) is in column W - 1 - x if the flag
\* read has x set (x otherwise), in row H - 1 - y if it has y set (y
\* otherwise), at offset c inside the pixel.
OutputBounds ==
    kArg.launched =>
        /\ DOMAIN img_out \subseteq OutBytes
        /\ KernelFinished =>
              \A x \in 0..(kArg.kp.W - 1), y \in 0..(kArg.kp.H - 1), c \in 0..(kArg.kp.C - 1) :
                  img_out[kArg.kp.H * kArg.kp.W * kArg.kp.C * kArg.imgIdx
                          + OutAddr(kArg.kp, FlagRead, x, y, c)]
                      = PixelColor(kArg.img_in,
                                   kArg.kp.H0 * kArg.kp.W0 * kArg.kp.C * kArg.imgIdx,
                                   kArg.kp, kArg.tabs, x, y, c)

\* witness of C20: two of the four workers of a launch for image 2 of a
\* batch of 2 x 2 RGB outputs, mirrored on both axes, have stored their bytes
OutputBoundsWitness ==
    /\ kArg.launched /\ kArg.imgIdx = 2
    /\ kArg.stepW = 2 /\ kArg.stepH = 2 /\ Cardinality(kDone) = 2
    /\ kArg.kp.W = 2 /\ kArg.kp.H = 2 /\ kArg.kp.C = 3
    /\ FlagRead.x /\ FlagRead.y
    /\ DOMAIN img_out # {} /\ DOMAIN img_out \subseteq OutBytes

(* Serial and parallel construction of the nearest-neighbour table. *)
\* C21: the nearest-neighbour table a block of stepW x stepH workers of
\* ConstructResizeTables leaves is, entry for entry, the table one worker
\* leaves with start = (0, 0) and step = (1, 1), for the same grid
\* parameters, W0 and C.
SerialParallelEquivalence ==
    (kArg.launched /\ kArg.mode = "nn") =>
        kArg.tabs.pMapping
            = ConstructResizeTables(kArg.kp.C, kArg.kp.W0, kArg.kp.sx0, kArg.kp.sy0,
                                    kArg.kp.sx1, kArg.kp.sy1, 1, 1)

(* The mirror flag of image i. *)
\* C22: after a finished launch for image imgIdx of a batch, congeneric or
\* heterogeneous, the output of the image is mirrored according to entry
\* imgIdx of the MirrorFlag array of the batch, and the entry read lies
\* inside the array.
PerImageMirror ==
    KernelFinished =>
        /\ 2 * kArg.imgIdx < Len(kArg.pMirrorInfo)
        /\ \A x \in 0..(kArg.kp.W - 1), y \in 0..(kArg.kp.H - 1), c \in 0..(kArg.kp.C - 1) :
              img_out[kArg.kp.H * kArg.kp.W * kArg.kp.C * kArg.imgIdx
                      + OutAddr(kArg.kp, kArg.pMirrorInfo[kArg.imgIdx + 1], x, y, c)]
                  = PixelColor(kArg.img_in,
                               kArg.kp.H0 * kArg.kp.W0 * kArg.kp.C * kArg.imgIdx,
                               kArg.kp, kArg.tabs, x, y, c)

(* The crop offset of image i. *)
\* the grid parameters the resize kernel of the last batch is handed for
\* image i: BatchedCongenericResizeKernel passes resizeParam as it is to
\* every block, BatchedResizeKernel passes resizeDescr + N_GRID_PARAMS * i
KernelParam(i) == IF batch.congeneric THEN resizeParamGPU_[1] ELSE resizeParamGPU_[i]

\* C23: after every batch, congeneric or heterogeneous, the crop offset the
\* resize kernel samples image i with is the crop offset computed for image
\* i in that batch.
PerImageCrop ==
    batch.run =>
        \A i \in 1..BatchSize :
            /\ KernelParam(i).crop.x = batch.imgs[i].cropX
            /\ KernelParam(i).crop.y = batch.imgs[i].cropY

(* The tables of the images of a slice. *)
RECURSIVE EarlierAreas(_, _, _)
\* the sum of the exact products sx0 * sy0 of the images j, j + BatchSliceNumb,
\* ... before image i (all counted from 0) of the batch b
EarlierAreas(b, i, j) ==
    IF j >= i THEN ZeroSizeT
    ELSE AddSizeT(ExactArea(TableSteps(b[j + 1].H0, b[j + 1].W0, b[j + 1].H1, b[j + 1].W1)),
                  EarlierAreas(b, i, j + BatchSliceNumb))

\* a <= b of two size_t
LeqSizeT(a, b) == ~LessSizeT(b, a)

\* the tables of a heterogeneous nearest-neighbour batch have been built
SliceTablesBuilt ==
    /\ suNN /\ suPc = "idle" /\ "construct:nn" \in suLog
    /\ ~SetupCongeneric(suBatch)

\* C24: after the table construction of a heterogeneous nearest-neighbour
\* batch, the table of image i starts, in the memory of slice i mod
\* nBatchSlice, at the sum of sx0 * sy0 of the earlier images of the slice;
\* the tables of two images of a slice share no entry, and every table ends
\* inside the total recorded for its slice.
DisjointSliceTables ==
    SliceTablesBuilt =>
        \A i \in 1..SetupBatchSize :
            LET r == suDev.pResizeMapping[i]
            IN /\ r.slice = (i - 1) % BatchSliceNumb
               /\ r.start = EarlierAreas(suBatch, i - 1, (i - 1) % BatchSliceNumb)
               /\ LeqSizeT(AddSizeT(r.start, r.len), pTotalSize[r.slice + 1])
               /\ \A j \in 1..(i - 1) :
                     LET q == suDev.pResizeMapping[j]
                     IN q.slice = r.slice =>
                           \/ LeqSizeT(AddSizeT(q.start, q.len), r.start)
                           \/ LeqSizeT(AddSizeT(r.start, r.len), q.start)

(* One table slot per sub-cell. *)
\* the slot UpdateMapping has made current in the running construction
CurrentSlot == IF tblArg.use_NN THEN helper.pMappingClosest ELSE helper.pMapping

\* C25: during and after a construction for the grid steps of positive
\* extents, the slots of the sub-cells handled so far lie in [0, sx0 * sy0)
\* and are pairwise distinct, the slot of the last sub-cell handled is the
\* current one, after the last sub-cell every slot has been assigned, and
\* the slot of sub-cell (x mod sx0, y mod sy0) is the slot the kernel looks
\* up for destination pixel (x, y), for every pixel and every crop offset.
OneSlotPerCell ==
    (nBuilt = 0 /\ tblPc \in {"loop", "trim"}) =>
        LET a == tblArg
            n == CellsDone
            ord == CellOrder(a.sx0, a.sy0, a.sx1, a.sy1, n)
        IN /\ \A k \in 1..n : ord[k] \in 0..(a.sx0 * a.sy0 - 1)
           /\ \A j \in 1..n, k \in 1..n : j # k => ord[j] # ord[k]
           /\ n > 0 => CurrentSlot = ord[n]
           /\ tblPc = "trim" => {ord[k] : k \in 1..n} = 0..(a.sx0 * a.sy0 - 1)
           /\ \A x \in 0..(a.W1 - 1), y \in 0..(a.H1 - 1), cropX \in 0..1, cropY \in 0..1 :
                 KernelSlot([sx0 |-> a.sx0, sy0 |-> a.sy0, sx1 |-> a.sx1, sy1 |-> a.sy1,
                             cropX |-> cropX, cropY |-> cropY], x, y)
                 = CellGeom(a.sx0, a.sy0, a.sx1, a.sy1,
                            (x + cropX) % a.sx0, (y + cropY) % a.sy0).shift

\* witness of C25: a finished construction of 3 x 3 sub-cells with steps
\* sx1 = sy1 = 2: sub-cell (1, 0) has slot 2, the last sub-cell (2, 2) slot 4
OneSlotPerCellWitness ==
    /\ nBuilt = 0 /\ tblPc = "trim"
    /\ tblArg.sx0 = 3 /\ tblArg.sy0 = 3 /\ tblArg.sx1 = 2 /\ tblArg.sy1 = 2
    /\ CellOrder(3, 3, 2, 2, 9)[2] = 2
    /\ CurrentSlot = 4

(* The slices of the pair array. *)
\* the pairs of pix in the range [addr, addr + n), <<>> if the range does not
\* lie inside the array
PairRange(pix, addr, n) ==
    IF addr + n <= Len(pix) THEN SubSeq(pix, addr + 1, addr + n) ELSE <<>>

\* C26: after every area-weighted ResizeMappingTable::constructTable on a
\* table object, the first or a later one, the pair array has the length
\* numUsed, and for every sub-cell, in the order of the construction, the
\* range [intersectInfoAddr, intersectInfoAddr + nPixels) starts where the
\* range of the sub-cell before it ends (the first at 0, the last ending at
\* the length of the array), and holds the pairs a construction of a fresh
\* table object records for that sub-cell.
PairSlices ==
    (tblPc = "idle" /\ nBuilt > 0 /\ ~tblArg.use_NN) =>
        LET a == tblArg
            n == a.sx0 * a.sy0
            ord == CellOrder(a.sx0, a.sy0, a.sx1, a.sy1, n)
            fresh == FreshLinearTable(a.H0, a.W0, a.H1, a.W1, a.C)
        IN /\ Len(pixMappingCPU) = helper.numPixMapUsed
           /\ Len(resizeMappingCPU) = n
           /\ resizeMappingCPU[ord[1] + 1].intersectInfoAddr = 0
           /\ \A k \in 1..n :
                 LET r == resizeMappingCPU[ord[k] + 1]
                     f == fresh.pResizeMapping[ord[k] + 1]
                 IN /\ r.nPixels > 0
                    /\ r.intersectInfoAddr + r.nPixels
                           = IF k < n
                             THEN resizeMappingCPU[ord[k + 1] + 1].intersectInfoAddr
                             ELSE Len(pixMappingCPU)
                    /\ PairRange(pixMappingCPU, r.intersectInfoAddr, r.nPixels)
                           = PairRange(fresh.pPixMapping, f.intersectInfoAddr, f.nPixels)

(* The recorded parameters after the setup. *)
\* C27: every RunImpl leaves, for every image i of its batch, the stored
\* triple (stepSrc, stepDst, crop offset) equal to the triple freshly
\* computed for image i, whether DataDependentSetupGPU returned true or
\* false, and it returned true exactly when the fresh triple of at least
\* one image differed from the triple stored before the call.
RecordedParamsCurrent ==
    [][batch'.run =>
         /\ \A i \in 1..BatchSize : resizeParam_'[i] = GridParamOf(batch'.imgs[i])
         /\ newMapping' = (\E i \in 1..BatchSize :
                              resizeParam_[i] # GridParamOf(batch'.imgs[i]))]_vars

\* witness of C27: the setup of a batch of two images of the same sizes and
\* different crop offsets has returned true and recorded both triples
RecordedParamsWitness ==
    /\ batch.run /\ newMapping /\ batch.congeneric
    /\ batch.imgs[1].cropX = 1 /\ batch.imgs[2].cropX = 0
    /\ resizeParam_[1].crop.x = 1 /\ resizeParam_[2].crop.x = 0
    /\ \A i \in 1..BatchSize : resizeParam_[i] = GridParamOf(batch.imgs[i])

(* The recorded parameters after a failed setup. *)
\* the triple recorded for image i when the running RunImpl was entered:
\* that of the last RunImpl that reached its end, the triple of the
\* construction of the operator before the first
StoredBefore(i) ==
    IF suPrev = <<>> THEN ZeroGridParam
    ELSE GridParam(TableSteps(suPrev[i].H0, suPrev[i].W0, suPrev[i].H1, suPrev[i].W1),
                   suPrev[i].cropX, suPrev[i].cropY)

\* C28: DataDependentSetupGPU is entered with the triples recorded by the
\* last RunImpl that reached its end, and when it raises the configuration
\* error at an image of the batch, the recorded grid parameters and crop
\* offsets of all images are still those.
FailedSetupKeepsRecord ==
    ((suPc = "setup" /\ suI = 1) \/ suPc = "error") =>
        \A i \in 1..SetupBatchSize : suParam[i].grid = StoredBefore(i)

(* The source bytes the kernel reads. *)
\* the first byte of the image of the launch in the input of the batch
SourceBase == kArg.kp.H0 * nYoffset(kArg.kp.W0, kArg.kp.C) * kArg.imgIdx

\* the H0 * W0 * C bytes of the image of the launch, all of value 0: a read
\* of any other address delivers Undef
ZeroSource ==
    [a \in SourceBase..(SourceBase + kArg.kp.H0 * kArg.kp.W0 * kArg.kp.C - 1) |-> 0]

\* what ResizeFunc accumulates for channel c of destination pixel (x, y) on
\* the all-zero image: 0 unless a byte outside the image is dereferenced
ProbeColor(x, y, c) ==
    IF kArg.tabs.pMapping # <<>>
    THEN NNPix(ZeroSource, SourceBase, kArg.kp, kArg.tabs.pMapping, x, y, c)
    ELSE IF kArg.tabs.pPixMapping # <<>> /\ kArg.tabs.pResizeMapping # <<>>
    THEN TabPixColor(ZeroSource, SourceBase, kArg.kp, kArg.tabs.pResizeMapping,
                     kArg.tabs.pPixMapping, kArg.tabs.junk, x, y, c)
    ELSE InlinePixColor(ZeroSource, SourceBase, kArg.kp, x, y, c)

\* C29: in every launch, with a nearest-neighbour table, with the tables of
\* linear interpolation or without tables, every source byte ResizeFunc
\* dereferences for an output pixel (x, y) inside the resized image lies in
\* the H0 * W0 * C bytes of the image of the launch.
SourceReadsInBounds ==
    kArg.launched =>
        \A x \in 0..(kArg.kp.W - 1), y \in 0..(kArg.kp.H - 1), c \in 0..(kArg.kp.C - 1) :
            ProbeColor(x, y, c) = 0

(***************************************************************************)
(* The loops of PixMappingHelper::constructTable (lines 614-668) and of    *)
(* ResizeFunc without tables (lines 808-851), one statement per step.      *)
(* Weights, colours and table entries are left out: none of them is read   *)
(* by a loop condition, except extra[1] in !(rowMult = extra[1]).          *)
(***************************************************************************)
MaxLoopDim == 3

MaxLoopWorkers == 2

LoopWorkers == 1..MaxLoopWorkers

LoopFunctions == {"constructTable", "ResizeFunc"}

\* a > b for two unsigned values held as 32-bit patterns
Above(a, b) == IF (a < 0) = (b < 0) THEN a > b ELSE a < 0

\* --x0 for an unsigned x0: 0 becomes the largest value, the bit pattern of -1
Decr(x0) == x0 - 1

\* begIdx, endIdx and extra[1] of pixel (x, y): lines 615-637 of
\* constructTable, where the loops run on endIdx -= begIdx from 0, and lines
\* 810-821 of ResizeFunc
LoopGeom(a, x, y) ==
    IF a.fn = "constructTable"
    THEN LET g == CellGeom(a.sx0, a.sy0, a.sx1, a.sy1, x, y)
         IN [beg0 |-> 0, beg1 |-> 0, end0 |-> g.endIdx0, end1 |-> g.endIdx1,
             extra1 |-> g.extra1]
    ELSE LET nY == (y + a.cropY) * a.sy1
             nX == (x + a.cropX) * a.sx1
         IN [beg0 |-> nX \div a.sx0, beg1 |-> nY \div a.sy0,
             end0 |-> (nX + a.sx1) \div a.sx0, end1 |-> (nY + a.sy1) \div a.sy0,
             extra1 |-> Min((nY + a.sy1) % a.sy0, a.sy1)]

\* for (y = startH; y < sy0; y += stepH), line 614, and
\* for (y = startH; y < H; y += stepH), line 808: the test
ForY(a, s) ==
    IF s.y < a.limH
    THEN [s EXCEPT !.pc = "for_x", !.x = s.startW]
    ELSE [s EXCEPT !.pc = "done"]

\* for (x = startW; x < sx0; x += stepW), line 615, and
\* for (x = startW; x < W; x += stepW), line 814: the test, then the
\* statements up to while (true); past the last x, y += stepH
ForX(a, s) ==
    IF s.x < a.limW
    THEN [s EXCEPT !.pc = "row", !.g = LoopGeom(a, s.x, s.y),
                   !.y0 = LoopGeom(a, s.x, s.y).beg1]
    ELSE [s EXCEPT !.pc = "for_y", !.y = s.y + a.stepH]

\* the head of the body of while (true), lines 644-652 and 829-833:
\* x0 = endIdx[0]; if (x0) and if (x0 > begIdx[0])
RowHead(s) ==
    [s EXCEPT !.x0 = s.g.end0,
              !.pc = IF Above(s.g.end0, s.g.beg0) THEN "col" ELSE "next_row"]

\* while (--x0 > 0), line 653, and while (--x0 > begIdx[0]), line 835: one
\* decrement and test
ColumnLoop(s) ==
    [s EXCEPT !.x0 = Decr(s.x0),
              !.pc = IF Above(Decr(s.x0), s.g.beg0) THEN "col" ELSE "next_row"]

\* RowAdvance with y0 left as it is
RowAdvanceNoIncrement(a, s) ==
    IF s.y0 >= s.g.end1
    THEN IF s.y0 > s.g.end1 \/ s.g.extra1 = 0
         THEN [s EXCEPT !.pc = "for_x", !.x = s.x + a.stepW]
         ELSE [s EXCEPT !.pc = "row"]
    ELSE [s EXCEPT !.pc = "row"]

\* the foot of the body of while (true), lines 661-666 and 841-846:
\* if (++y0 >= endIdx[1]) { if (y0 > endIdx[1] || !(rowMult = extra[1])) break; }
\* and, past the break, x += stepW
RowAdvance(a, s) ==
    IF s.y0 + 1 >= s.g.end1
    THEN IF s.y0 + 1 > s.g.end1 \/ s.g.extra1 = 0
         THEN [s EXCEPT !.y0 = s.y0 + 1, !.pc = "for_x", !.x = s.x + a.stepW]
         ELSE [s EXCEPT !.y0 = s.y0 + 1, !.pc = "row"]
    ELSE [s EXCEPT !.y0 = s.y0 + 1, !.pc = "row"]

\* the next statement of a worker
LoopStep(a, s) ==
    CASE s.pc = "for_y" -> ForY(a, s)
      [] s.pc = "for_x" -> ForX(a, s)
      [] s.pc = "row" -> RowHead(s)
      [] s.pc = "col" -> ColumnLoop(s)
      [] s.pc = "next_row" -> RowAdvance(a, s)

\* the call of fn by a block of stepW x stepH workers for an image of
\* H0 x W0 pixels resized to H1 x W1: constructTable runs over the sub-cells
\* of the grid (ConstructResizeTables, line 488; the host call with one
\* worker, line 711), ResizeFunc over the output (lines 498-500 and 533-535)
LoopCall(fn, H0, W0, H1, W1, stepW, stepH) ==
    /\ loopArg.fn = "none"
    /\ \E st \in {TableSteps(H0, W0, H1, W1)} :
          loopArg' = [fn |-> fn, sx0 |-> st.sx0, sy0 |-> st.sy0,
                      sx1 |-> st.sx1, sy1 |-> st.sy1, cropX |-> 0, cropY |-> 0,
                      limW |-> IF fn = "constructTable" THEN st.sx0 ELSE W1,
                      limH |-> IF fn = "constructTable" THEN st.sy0 ELSE H1,
                      stepW |-> stepW, stepH |-> stepH]
    /\ loopW' = [w \in 1..(stepW * stepH) |->
                    [pc |-> "for_y", startW |-> (w - 1) % stepW,
                     y |-> (w - 1) \div stepW, x |-> 0, x0 |-> 0, y0 |-> 0,
                     g |-> [beg0 |-> 0, beg1 |-> 0, end0 |-> 0, end1 |-> 0,
                            extra1 |-> 0]]]

LoopLaunch ==
    /\ \E fn \in LoopFunctions, H0 \in 1..MaxLoopDim, W0 \in 1..MaxLoopDim,
          H1 \in 1..MaxLoopDim, W1 \in 1..MaxLoopDim,
          stepW \in LoopWorkers, stepH \in LoopWorkers :
          /\ stepW * stepH <= MaxLoopWorkers
          /\ LoopCall(fn, H0, W0, H1, W1, stepW, stepH)
    /\ UNCHANGED <<gridVars, tblVars, kernVars, opVars, streamVars, setupVars, pasteVars>>

\* worker w runs its next statement; nothing of another worker is read
WorkerStep(w) ==
    /\ loopArg.fn # "none"
    /\ w \in DOMAIN loopW
    /\ loopW[w].pc # "done"
    /\ loopW' = [loopW EXCEPT ![w] = LoopStep(loopArg, loopW[w])]
    /\ UNCHANGED loopArg
    /\ UNCHANGED <<gridVars, tblVars, kernVars, opVars, streamVars, setupVars, pasteVars>>

LoopWorkerAny == \E w \in LoopWorkers : WorkerStep(w)

InitLoop ==
    /\ IdleGrid /\ InitTblVars /\ IdleKern /\ IdleOp /\ IdleSetup /\ IdlePaste
    /\ IdleLoop

NextLoop == LoopLaunch \/ LoopWorkerAny

SpecLoop == InitLoop /\ [][NextLoop]_vars

\* every worker that can run is run again and again: a thread of a launched
\* block, and the host thread inside constructTable, is never suspended for
\* ever
SpecLoopFair == SpecLoop /\ \A w \in LoopWorkers : WF_vars(WorkerStep(w))

\* C30: for every pair of image sizes (the grid steps are then positive) and
\* every block of workers, each worker of constructTable and of ResizeFunc,
\* once started, leaves its last loop: the loops for, while (true) and
\* while (--x0 > ...) all end, whatever the other workers do meanwhile.
LoopsTerminate ==
    \A w \in LoopWorkers : (w \in DOMAIN loopW) ~> (w \in DOMAIN loopW /\ loopW[w].pc = "done")

\* witness of C30: a block of two workers of ResizeFunc has finished an image
\* whose output pixels each cover three source columns and three source rows
LoopsTerminateWitness ==
    /\ loopArg.fn = "ResizeFunc"
    /\ loopArg.sx1 = 3 * loopArg.sx0 /\ loopArg.sy1 = 3 * loopArg.sy0
    /\ Len(loopW) = 2
    /\ \A w \in DOMAIN loopW : loopW[w].pc = "done"

====
